---- MODULE Spec2Model ----
(***************************************************************************)
(* ipodprep: the conversion pipeline orchestrator.                         *)
(*                                                                         *)
(* The model follows app/cli.py (main, process_one), app/fsops.py          *)
(* (atomic_commit, _versioned_name, delete_source), app/planner.py         *)
(* (build_run_plan), app/transcode.py, app/validate.py, app/config.py      *)
(* (load_settings), app/tagging.py and app/gui (Runner.doRun, the queue of *)
(* the main window).                                                       *)
(*                                                                         *)
(* A path is a tuple                                                       *)
(*     <<stem, decorations, extension, directory>>                         *)
(* so that "d/a (2).mp3" is <<"a", <<2>>, "mp3", "d">>.  The file system   *)
(* is a function from the paths that exist to their content; a content is  *)
(* a pair <<kind, n>>.  The directories are "d" and, inside it, "d/s".     *)
(***************************************************************************)
EXTENDS Naturals, Integers, Sequences, FiniteSets, TLC

VARIABLES
    fs,            \* the directory: existing path -> content
    fs0,           \* the directory as it was when the run started
    settings,      \* the Settings value of the run (never mutated)
    jobs,          \* ThreadPoolExecutor(max_workers=jobs)
    plans,         \* base_plans: the list build_run_plan returned
    png500,        \* plan -> TRUE when a normalized cover was resolved
    art_files,     \* plan -> temp art files (src_image, png500) on disk
    pc,            \* plan -> position of its process_one call
    error,         \* plan -> the captured exception ("" when none)
    final_target,  \* plan -> what atomic_commit returned (NoPath before)
    dest,          \* plan -> the path atomic_commit is about to replace
    passed,        \* plan -> the validation checks that returned
    committed,     \* plan -> TRUE once os.replace moved its temp file
    delete_called, \* plan -> TRUE once delete_source was called
    deleted,       \* plan -> manifest_row["deleted_source"]
    touched,       \* plan -> the paths its pipeline read or wrote
    results,       \* results_for_manifest: plan -> the "result" of its row,
                   \* "" while main has not received it (the order of the
                   \* list, the completion order, is not kept)
    failures,      \* main's failure counter
    faults,        \* how many steps the environment made fail so far
    mainpc,        \* position of main
    input_paths,   \* the paths given on the command line
    dry_run,       \* ns.dry_run
    config,        \* the configuration file load_settings finds
    folder,        \* the cover file names present beside the sources
    streams,       \* the video streams ffprobe reports for a source
    art,           \* rows: the ArtSource resolved for each plan so far
    replan,        \* the list a second call of build_run_plan returned
    manifest,      \* the documents this invocation gave to write_manifest
    cover_image,   \* the normalized cover image of a track, NoImage if none
    apics,         \* the APIC frames of a track's temp file
    readings,      \* what ffprobe reports for a track's source and output
    gate,          \* position of a track between tagging and commit
    clock,         \* the wall clock, in seconds
    run_dirs,      \* invocation -> the run directory it was given
    logs,          \* run directory -> the invocation whose manifest it holds
    src_tags,      \* the tags mutagen reads from a track's source
    out_tags,      \* the text frames of a track's temp file
    emitted,       \* the trackResult signals the graphical runner emitted
    queue,         \* MainWindow._queue
    queue_set,     \* MainWindow._queue_set
    list_items     \* the texts of the items of the list widget

\* what main reads before the pool starts
mainvars == <<input_paths, dry_run, config, folder, streams, art, replan>>

\* the content of one track's files and the run directories
guivars == <<src_tags, out_tags, emitted, queue, queue_set, list_items>>

auxvars == <<cover_image, apics, readings, gate, clock, run_dirs, logs,
             guivars>>

vars == <<fs, fs0, settings, jobs, plans, png500, art_files, pc, error,
          final_target, dest, passed, committed, delete_called, deleted,
          touched, results, failures, faults, mainpc, mainvars, manifest,
          auxvars>>

(***************************************************************************)
(* Bounds of the model.                                                    *)
(***************************************************************************)
MaxBatch == 2      \* most plans in one batch
MaxJobs == 2       \* largest worker pool
MaxFaults == 1     \* most steps of one run the environment makes fail

(***************************************************************************)
(* Paths.                                                                  *)
(***************************************************************************)
NoPath == <<"", <<>>, "", "">>

Stem(path) == path[1]
Suffix(path) == path[3]
Parent(path) == path[4]

\* Path.with_suffix(".mp3")
WithSuffix(path, ext) == <<path[1], path[2], ext, path[4]>>

\* planner._AUDIO_EXTS (the extensions the model's directory uses)
AudioExts == [flac |-> "flac", wav |-> "wav", mp3 |-> "mp3", aac |-> "m4a"]

\* The directory's possible audio files.  "a.flac" may be a symbolic link
\* to its sibling "a.mp3" (content kind "link").
SrcUniverse ==
    { <<"a", <<>>, "flac", "d">>, <<"a", <<>>, "wav", "d">>,
      <<"a", <<>>, "mp3", "d">> }

LinkPath == <<"a", <<>>, "flac", "d">>

IsLink(f, path) == path \in DOMAIN f /\ f[path][1] = "link"

\* Path.resolve(): follows the symbolic link, a missing path resolves to itself
Resolve(f, path) == IF IsLink(f, path) THEN WithSuffix(path, "mp3") ELSE path

\* Path.exists() / is_file(): follows the link
Exists(f, path) == Resolve(f, path) \in DOMAIN f

\* the position of a name in the sorted directory listing: ' ' < '.' so a
\* decorated name sorts before the plain one, then by extension
ExtRank(ext) == CASE ext = "flac" -> 1 [] ext = "mp3" -> 2 [] ext = "wav" -> 3 [] OTHER -> 4
StemRank(stem) == CASE stem = "a" -> 1 [] stem = "b" -> 2 [] OTHER -> 3
NameKey(path) ==
    StemRank(path[1]) * 1000
    + (IF path[2] = <<>> THEN 90 ELSE path[2][1]) * 10
    + ExtRank(path[3])

\* the position of a directory among the directories, as strings and as
\* paths: "d" < "d/s"
DirRank(d) == CASE d = "d" -> 1 [] d = "d/s" -> 2 [] OTHER -> 3

\* a key that looks at the file name only
PathKeyNameOnly(path) == NameKey(path)

\* the sort key (str(p.src.parent), p.src.name)
PathKey(path) == DirRank(Parent(path)) * 10000 + NameKey(path)

(***************************************************************************)
(* Planner.                                                                *)
(***************************************************************************)
RECURSIVE Insert(_, _)
Insert(s, x) ==
    IF s = <<>> THEN <<x>>
    ELSE IF PathKey(x) < PathKey(Head(s)) THEN <<x>> \o s
    ELSE <<Head(s)>> \o Insert(Tail(s), x)

RECURSIVE SortPaths(_)
SortPaths(s) == IF s = <<>> THEN <<>> ELSE Insert(SortPaths(Tail(s)), Head(s))

\* the audio files of a directory walk, in some order
RECURSIVE SetToSeq(_)
SetToSeq(S) ==
    IF S = {} THEN <<>>
    ELSE LET x == CHOOSE y \in S : TRUE IN <<x>> \o SetToSeq(S \ {x})

\* the directory "d" and its subdirectory, as roots
Dir == <<".", <<>>, "", "d">>
SubDir == <<".", <<>>, "", "d/s">>

IsDir(path) == path \in {Dir, SubDir}

\* os.walk(p): the directories visited
DirsUnder(path) == IF path = Dir THEN {"d", "d/s"} ELSE {Parent(path)}

\* planner._iter_audio_files: a root is resolved; a file with a known
\* extension is appended, a directory is walked (names are not resolved),
\* anything else is ignored; the list is sorted, duplicates stay.
RECURSIVE IterAudioFiles(_, _)
IterAudioFiles(f, roots) ==
    IF roots = <<>> THEN <<>>
    ELSE LET p == Resolve(f, Head(roots))
             here ==
                 IF IsDir(p)
                 THEN SetToSeq({ q \in DOMAIN f :
                                   /\ Parent(q) \in DirsUnder(p)
                                   /\ Suffix(q) \in DOMAIN AudioExts })
                 ELSE IF p \in DOMAIN f /\ Suffix(p) \in DOMAIN AudioExts
                 THEN <<p>>
                 ELSE <<>>
         IN here \o IterAudioFiles(f, Tail(roots))

\* planner._temp_path_for: ".~<basename>.<uuid4>.tmp" beside the source;
\* a uuid4 value is named by its rank among the values uuid4 returned so
\* far in the process (two calls never return the same value)
\* a temp file in a directory of its own, named by the uuid
TempPathForOwnDir(target_dir, basename, uuid) ==
    <<"~" \o basename, <<>>, "tmp", ToString(uuid)>>

\* a temp name without the uuid
TempPathForNoUuid(target_dir, basename, uuid) ==
    <<"~" \o basename, <<>>, "tmp", target_dir>>

TempPathFor(target_dir, basename, uuid) ==
    <<"~" \o basename, <<uuid>>, "tmp", target_dir>>

\* every source is encoded
NeedsEncodeAlways(src_codec) == TRUE

\* line 66
NeedsEncode(src_codec) == src_codec # "mp3"

\* plans.sort(key=lambda p: (str(p.src.parent), p.src.name)), a stable sort
RECURSIVE InsertPlan(_, _)
InsertPlan(ps, x) ==
    IF ps = <<>> THEN <<x>>
    ELSE IF PathKey(x.src) <= PathKey(Head(ps).src) THEN <<x>> \o ps
    ELSE <<Head(ps)>> \o InsertPlan(Tail(ps), x)

RECURSIVE SortPlans(_)
SortPlans(ps) ==
    IF ps = <<>> THEN <<>> ELSE InsertPlan(SortPlans(Tail(ps)), Head(ps))

\* planner.build_run_plan, uuid4 having been called "drawn" times before
\* (the list is empty when PlanError is raised)
BuildRunPlan(f, roots, s, drawn) ==
    LET files == SortPaths(IterAudioFiles(f, roots))
    IN SortPlans(
         [ i \in 1..Len(files) |->
           [ src          |-> files[i],
             src_codec    |-> AudioExts[Suffix(files[i])],
             needs_encode |-> NeedsEncode(AudioExts[Suffix(files[i])]),
             target       |-> WithSuffix(files[i], "mp3"),
             temp_path    |-> TempPathFor(Parent(files[i]), Stem(files[i]),
                                          drawn + i),
             delete_mode  |-> s.delete_mode,
             collision    |-> s.collision ] ])

(***************************************************************************)
(* Artwork.                                                                *)
(***************************************************************************)
MaxStreams == 2    \* most video streams of one source

\* artwork._FOLDER_CANDIDATES, in priority order
FolderCandidates ==
    <<"cover.jpg", "cover.jpeg", "cover.png",
      "folder.jpg", "folder.jpeg", "folder.png">>

\* the "streams" lists ffprobe -select_streams v may report: stream i of
\* the list has global index i (the audio stream is #0) and may have the
\* attached_pic disposition
StreamSeqs ==
    UNION { { [ i \in 1..k |-> [index |-> i, attached_pic |-> a[i]] ] :
                a \in [1..k -> BOOLEAN] } : k \in 0..MaxStreams }

NoArt == [kind |-> "none", detail |-> "no art", stream_index |-> 0]

\* artwork._find_folder_art: the candidates tried from position i on, ""
\* for None
RECURSIVE FindFolderArtFrom(_, _)
FindFolderArtFrom(present, i) ==
    IF i > Len(FolderCandidates) THEN ""
    ELSE IF FolderCandidates[i] \in present THEN FolderCandidates[i]
    ELSE FindFolderArtFrom(present, i + 1)

FindFolderArt(present) == FindFolderArtFrom(present, 1)

\* the loop of detect_art_source over the streams: the first one with
\* attached_pic == 1, 0 when there is none
RECURSIVE FirstAttachedFrom(_, _)
FirstAttachedFrom(strms, i) ==
    IF i > Len(strms) THEN 0
    ELSE IF strms[i].attached_pic THEN i
    ELSE FirstAttachedFrom(strms, i + 1)

\* the embedded streams tried before the folder file
DetectArtSourceEmbeddedFirst(present, strms, probe_ok) ==
    LET a == FirstAttachedFrom(strms, 1)
    IN IF probe_ok /\ a > 0
       THEN [kind |-> "embedded", detail |-> "", stream_index |-> strms[a].index]
       ELSE IF FindFolderArt(present) # ""
       THEN [kind |-> "folder", detail |-> FindFolderArt(present),
             stream_index |-> 0]
       ELSE IF probe_ok /\ strms # <<>>
       THEN [kind |-> "embedded", detail |-> "", stream_index |-> strms[1].index]
       ELSE NoArt

\* artwork.detect_art_source; probe_ok is FALSE when ffprobe fails
\* (ProcError, caught)
DetectArtSource(present, strms, probe_ok) ==
    LET folder_file == FindFolderArt(present)
        a == FirstAttachedFrom(strms, 1)
    IN IF folder_file # ""
       THEN [kind |-> "folder", detail |-> folder_file, stream_index |-> 0]
       ELSE IF ~probe_ok THEN NoArt
       ELSE IF a > 0
       THEN [kind |-> "embedded", detail |-> "", stream_index |-> strms[a].index]
       ELSE IF strms # <<>>
       THEN [kind |-> "embedded", detail |-> "", stream_index |-> strms[1].index]
       ELSE NoArt

(***************************************************************************)
(* config.load_settings.  A raw configuration is what the TOML file holds  *)
(* for the keys _coerce_settings reads; a value where a number is expected *)
(* is an integer, a string or a list.                                      *)
(***************************************************************************)
MaxBadFields == 2    \* most keys of one file that hold a disallowed value

Num(n) == [kind |-> "int", value |-> n, text |-> ""]
Text(t) == [kind |-> "str", value |-> 0, text |-> t]
ListValue == [kind |-> "list", value |-> 0, text |-> ""]

\* int(x): the integer, or the exception int raises
IntOf(v) ==
    CASE v.kind = "int"  -> [error |-> "", value |-> v.value]
      [] v.kind = "str"  -> IF v.text = "500"
                            THEN [error |-> "", value |-> 500]
                            ELSE [error |-> "ValueError", value |-> 0]
      [] OTHER           -> [error |-> "TypeError", value |-> 0]

\* _DEFAULTS_TOML
DefaultRaw ==
    [ profile |-> "CBR320", sample_rate |-> "44100", version |-> "2.3",
      strip_frames |-> "list", target_px |-> Num(500), format |-> "jpeg",
      mode |-> "center_crop", enabled |-> TRUE, delete_mode |-> "trash",
      if_target_exists |-> "overwrite", min_duration_sec |-> Num(10),
      level |-> "info" ]

\* the values _coerce_settings lets through
Allowed ==
    [ profile |-> {"CBR320"}, sample_rate |-> {"44100", "preserve"},
      version |-> {"2.3"}, format |-> {"png", "jpeg"},
      mode |-> {"center_crop", "pad"}, delete_mode |-> {"trash", "hard"},
      if_target_exists |-> {"overwrite", "skip", "version"},
      level |-> {"info", "debug"} ]

RawConfigs ==
    [ profile : {"CBR320", "V0"},
      sample_rate : {"44100", "preserve", "48000"},
      version : {"2.3", "2.4"},
      strip_frames : {"list", "int"},
      target_px : {Num(500), Num(0), Text("500"), Text("big"), ListValue},
      format : {"png", "jpeg", "gif"},
      mode : {"center_crop", "pad", "stretch"},
      enabled : {TRUE},
      delete_mode : {"trash", "hard", "shred"},
      if_target_exists : {"overwrite", "skip", "version", "ask"},
      min_duration_sec : {Num(10), Text("ten")},
      level : {"info", "debug", "warning"} ]

\* the number of keys of raw that hold a value that is not let through
BadFields(raw) ==
    Cardinality({ k \in DOMAIN Allowed : raw[k] \notin Allowed[k] })
    + (IF raw.strip_frames # "list" THEN 1 ELSE 0)
    + (IF raw.target_px # Num(500) THEN 1 ELSE 0)
    + (IF raw.min_duration_sec # Num(10) THEN 1 ELSE 0)

\* what load_settings finds: no file (the built-in defaults), a path that
\* does not exist, a path that cannot be read (a directory, no permission),
\* a file that is not TOML, or a file with a raw configuration
ConfigFiles ==
    { [file |-> k, raw |-> DefaultRaw] :
        k \in {"none", "missing", "unreadable", "garbled"} }
    \cup { [file |-> "parsed", raw |-> raw] :
             raw \in { r \in RawConfigs : BadFields(r) <= MaxBadFields } }

NoSettings == [loaded |-> FALSE]
ConfigErrorRaised == [error |-> "ConfigError", value |-> NoSettings]
Raised(exc) == [error |-> exc, value |-> NoSettings]

\* config._coerce_settings: the Settings value, or the first exception raised
CoerceSettings(raw) ==
    IF raw.profile \notin Allowed.profile THEN ConfigErrorRaised
    ELSE IF raw.sample_rate \notin Allowed.sample_rate THEN ConfigErrorRaised
    ELSE IF raw.version \notin Allowed.version THEN ConfigErrorRaised
    ELSE IF raw.strip_frames # "list" THEN Raised("TypeError")
    ELSE IF IntOf(raw.target_px).error # ""
    THEN Raised(IntOf(raw.target_px).error)
    ELSE IF IntOf(raw.target_px).value <= 0 THEN ConfigErrorRaised
    ELSE IF raw.format \notin Allowed.format THEN ConfigErrorRaised
    ELSE IF raw.mode \notin Allowed.mode THEN ConfigErrorRaised
    ELSE IF raw.delete_mode \notin Allowed.delete_mode THEN ConfigErrorRaised
    ELSE IF raw.if_target_exists \notin Allowed.if_target_exists
    THEN ConfigErrorRaised
    ELSE IF IntOf(raw.min_duration_sec).error # ""
    THEN Raised(IntOf(raw.min_duration_sec).error)
    ELSE IF raw.level \notin Allowed.level THEN ConfigErrorRaised
    ELSE [ error |-> "",
           value |-> [ loaded |-> TRUE,
                       bitrate_mode |-> "CBR320",
                       sample_rate |-> raw.sample_rate,
                       id3_version |-> "2.3",
                       art_target_px |-> IntOf(raw.target_px).value,
                       art_format |-> raw.format,
                       art_mode |-> raw.mode,
                       replace_in_place |-> raw.enabled,
                       delete_mode |-> raw.delete_mode,
                       collision |-> raw.if_target_exists,
                       min_duration_sec |-> IntOf(raw.min_duration_sec).value,
                       log_level |-> raw.level ] ]

\* config.load_settings
LoadSettingsFrom(cfg) ==
    CASE cfg.file = "none"       -> CoerceSettings(DefaultRaw)
      [] cfg.file = "missing"    -> ConfigErrorRaised
      [] cfg.file = "unreadable" -> Raised("OSError")
      [] cfg.file = "garbled"    -> ConfigErrorRaised
      [] OTHER                   -> CoerceSettings(cfg.raw)

\* the configuration file that yields the settings s
ConfigOf(s) ==
    [ file |-> "parsed",
      raw  |-> [DefaultRaw EXCEPT !.enabled = s.replace_in_place,
                                  !.delete_mode = s.delete_mode,
                                  !.if_target_exists = s.collision] ]

(***************************************************************************)
(* The run: settings, directory, plan list.                                *)
(***************************************************************************)
SettingsSet ==
    [ replace_in_place : BOOLEAN,
      delete_mode      : {"trash", "hard"},
      collision        : {"overwrite", "skip", "version"} ]

\* what the directory may hold when the run starts
DirUniverse == SrcUniverse

OrigContent(path) == <<"orig", NameKey(path)>>

InitialDir(files, linked) ==
    [ q \in files |->
        IF linked /\ q = LinkPath THEN <<"link", 0>> ELSE OrigContent(q) ]

Roots == DirUniverse \cup {Dir}
RootSeqs == UNION { [1..k -> Roots] : k \in 1..MaxBatch }

\* the command lines of the runs that are followed to their end: one
\* directory, or files in their order (the same file twice included)
RunRootSeqs ==
    { r \in RootSeqs :
        \/ r = <<Dir>>
        \/ /\ \A i \in DOMAIN r : r[i] # Dir
           /\ \A i, j \in DOMAIN r : i < j => PathKey(r[i]) <= PathKey(r[j]) }

NoImage == [size |-> 0, format |-> "none"]

\* no tag read, no signal emitted, an empty queue
GuiIdle ==
    /\ src_tags = <<>>
    /\ out_tags = <<>>
    /\ emitted = <<>>
    /\ queue = <<>>
    /\ queue_set = {}
    /\ list_items = <<>>

\* nothing written yet, no track's files looked into, no run directory
AuxIdle ==
    /\ manifest = <<>>
    /\ cover_image = NoImage
    /\ apics = <<>>
    /\ readings = <<>>
    /\ gate = "idle"
    /\ clock = 0
    /\ run_dirs = <<>>
    /\ logs = <<>>
    /\ GuiIdle

\* the per-plan state before any process_one call exists
Fresh(ps, v) == [ i \in DOMAIN ps |-> v ]

PlanIds == DOMAIN plans
Srcs(ps) == { ps[i].src : i \in DOMAIN ps }

Init ==
    \E files \in SUBSET DirUniverse, linked \in BOOLEAN,
       s \in SettingsSet, n \in 1..MaxJobs, rts \in RunRootSeqs :
        LET f  == InitialDir(files, linked)
            ps == BuildRunPlan(f, rts, s, 0)
        IN /\ linked => (LinkPath \in files /\ WithSuffix(LinkPath, "mp3") \in files)
           /\ Len(ps) \in 1..MaxBatch
           \* the directory holds the batch and, besides, only .mp3 files
           /\ \A q \in files : q \in Srcs(ps) \/ Suffix(q) = "mp3"
           /\ fs = f
           /\ fs0 = f
           /\ settings = s
           /\ jobs = n
           /\ plans = ps
           \* the directory holds a folder cover (every plan gets its copy
           \* and its normalized image) or no plan has art
           /\ \E cover \in BOOLEAN :
                /\ png500 = [ i \in DOMAIN ps |-> cover ]
                /\ art_files = [ i \in DOMAIN ps |->
                                   IF cover THEN {"src_image", "png500"} ELSE {} ]
                /\ folder = IF cover THEN {"cover.jpg"} ELSE {}
                /\ streams = <<>>
                /\ art = [ i \in DOMAIN ps |->
                            DetectArtSource(IF cover THEN {"cover.jpg"} ELSE {},
                                            <<>>, TRUE) ]
           /\ input_paths = rts
           /\ dry_run = FALSE
           /\ config = ConfigOf(s)
           /\ replan = <<>>
           /\ pc = [ i \in DOMAIN ps |-> "queued" ]
           /\ error = [ i \in DOMAIN ps |-> "" ]
           /\ final_target = [ i \in DOMAIN ps |-> NoPath ]
           /\ dest = [ i \in DOMAIN ps |-> NoPath ]
           /\ passed = [ i \in DOMAIN ps |-> {} ]
           /\ committed = [ i \in DOMAIN ps |-> FALSE ]
           /\ delete_called = [ i \in DOMAIN ps |-> FALSE ]
           /\ deleted = [ i \in DOMAIN ps |-> FALSE ]
           /\ touched = [ i \in DOMAIN ps |-> {} ]
           /\ results = [ i \in DOMAIN ps |-> "" ]
           /\ failures = 0
           /\ faults = 0
           /\ mainpc = "running"
           /\ AuxIdle

(***************************************************************************)
(* File system operations.                                                 *)
(***************************************************************************)
Remove(f, path) == [ q \in DOMAIN f \ {path} |-> f[q] ]

Write(f, path, content) ==
    [ q \in DOMAIN f \cup {path} |-> IF q = path THEN content ELSE f[q] ]

\* os.replace(src, dst): dst takes the content, src is gone
Replace(f, from, to) ==
    [ q \in (DOMAIN f \ {from}) \cup {to} |-> IF q = to THEN f[from] ELSE f[q] ]

\* fsops._versioned_name: "base (i).ext" for the first i >= 2 that is free
RECURSIVE VersionProbe(_, _, _)
VersionProbe(f, path, i) ==
    LET cand == <<path[1], Append(path[2], i), path[3], path[4]>>
    IN IF ~Exists(f, cand) THEN cand ELSE VersionProbe(f, path, i + 1)

\* the first decorated name, whether it is taken or not
VersionedNameUnprobed(f, path) ==
    <<path[1], Append(path[2], 2), path[3], path[4]>>

VersionedName(f, path) == VersionProbe(f, path, 2)

(***************************************************************************)
(* The cover that is embedded and the three checks of the produced file,  *)
(* as functions of what the files hold.                                    *)
(***************************************************************************)
MaxApics == 2       \* most APIC frames a file holds before tagging

ApicPx == 500            \* tagging._load_png_bytes, validate: (500, 500)
FrontCover == 3          \* APIC type=3
BitrateNominal == 320000
BitrateFloor == 319000
Tolerance == 500         \* tolerance=0.5 (seconds)

\* config._coerce_settings: artwork.target_px is any integer > 0,
\* artwork.format is "png" or "jpeg"
ArtSettings ==
    [ art_target_px : {300, ApicPx}, art_format : {"png", "jpeg"} ]

Images == [ size : {300, ApicPx}, format : {"JPEG", "PNG"} ]

\* the frames a temp file may hold before it is tagged
Frames ==
    { [size |-> i.size, format |-> i.format, type |-> FrontCover] : i \in Images }
    \cup { [size |-> ApicPx, format |-> "JPEG", type |-> 0] }

FrameSeqs == UNION { [1..k -> Frames] : k \in 0..MaxApics }

\* what one ffprobe call answers: it fails (ProcError), or reports a value,
\* 0 standing for a field that is missing
ProbeFails == [raised |-> TRUE, value |-> 0]
Reports(v) == [raised |-> FALSE, value |-> v]

Readings ==
    [ src_dur  : {ProbeFails, Reports(0), Reports(10000)},
      dst_dur  : {ProbeFails, Reports(0), Reports(9499), Reports(9500),
                  Reports(10500), Reports(10501)},
      bit_rate : {ProbeFails, Reports(0), Reports(318999),
                  Reports(BitrateFloor), Reports(BitrateNominal),
                  Reports(320001)} ]

\* artwork.normalize_art_to_jpeg_500: ffmpeg scales and crops (or pads) to
\* art_target_px and writes the .jpg file; art_format is not read
NormalizeArt(s) == [size |-> s.art_target_px, format |-> "JPEG"]

\* tagging._load_png_bytes: "" or the exception raised
LoadPngBytes(img) ==
    IF img.size # ApicPx THEN "ValueError: not 500x500" ELSE ""

\* the frames kept, the new one added after them
WriteApicKeepsOld(frames, img) ==
    IF img = NoImage THEN frames
    ELSE Append(frames, [size |-> img.size, format |-> img.format,
                         type |-> FrontCover])

\* tagging.write_id3_v23_with_apic, lines 169-179: tags.delall("APIC"), then
\* one APIC of type 3 with the bytes of the cover file when there is one
WriteApic(frames, img) ==
    IF img = NoImage THEN <<>>
    ELSE <<[size |-> img.size, format |-> img.format, type |-> FrontCover]>>

Abs(n) == IF n < 0 THEN -n ELSE n

\* validate.validate_duration_close: "" or the exception raised
ValidateDurationClose(r) ==
    IF r.src_dur.raised \/ r.dst_dur.raised THEN "ProcError"
    ELSE IF r.src_dur.value = 0 \/ r.dst_dur.value = 0 THEN ""
    ELSE IF Abs(r.src_dur.value - r.dst_dur.value) > Tolerance
    THEN "ValueError: duration"
    ELSE ""

\* a check that looks at the bit rate of every track
ValidateBitrateAlways(plan, r) ==
    IF r.bit_rate.raised THEN "ProcError"
    ELSE IF r.bit_rate.value # BitrateNominal /\ r.bit_rate.value < BitrateFloor
    THEN "ValueError: bitrate"
    ELSE ""

\* validate.validate_bitrate_if_encoded: "" or the exception raised
ValidateBitrateIfEncoded(plan, r) ==
    IF ~plan.needs_encode THEN ""
    ELSE IF r.bit_rate.raised THEN "ProcError"
    ELSE IF r.bit_rate.value # BitrateNominal /\ r.bit_rate.value < BitrateFloor
    THEN "ValueError: bitrate"
    ELSE ""

\* a cover check that lets a file without APIC through
ValidateApicOptional(frames) ==
    IF frames = <<>> THEN ""
    ELSE IF Len(frames) > 1 THEN "ValueError: more than one APIC"
    ELSE IF frames[1].format # "JPEG" THEN "ValueError: not JPEG"
    ELSE IF frames[1].size # ApicPx THEN "ValueError: size"
    ELSE ""

\* validate.validate_id3_and_apic_500: "" or the exception raised
ValidateId3AndApic500(frames) ==
    IF frames = <<>> THEN "ValueError: no APIC"
    ELSE IF Len(frames) > 1 THEN "ValueError: more than one APIC"
    ELSE IF frames[1].format # "JPEG" THEN "ValueError: not JPEG"
    ELSE IF frames[1].size # ApicPx THEN "ValueError: size"
    ELSE ""

(***************************************************************************)
(* The worker pool.                                                        *)
(***************************************************************************)
Executing == {"audio", "tags", "validate", "commit", "replace", "delete"}
Terminal == {"ok", "failed", "escaped"}

Running == { p \in PlanIds : pc[p] \in Executing }

\* a pool that starts a thread for every submitted call
WorkerFreeUnbounded == TRUE

\* ThreadPoolExecutor(max_workers=jobs): a queued call starts on a free worker
WorkerFree == Cardinality(Running) < jobs

\* a handler that lets the probe's and the tools' ProcError through
HandlerCatchesValueErrorOnly(exc) == exc \in {"bitrate", "cover"}

\* process_one's "except Exception" catches whatever the steps raise
HandlerCatches(exc) == TRUE

\* What an external tool, library or system call may answer: TRUE (it
\* works) and, while the run's fault budget lasts, FALSE (it fails).
EnvChoices == IF faults < MaxFaults THEN BOOLEAN ELSE {TRUE}

Fault(env_ok) == faults' = IF env_ok THEN faults ELSE faults + 1

\* "touched" history
Touch(p, paths) == touched' = [touched EXCEPT ![p] = @ \cup paths]

SrcPaths(p) == {plans[p].src, Resolve(fs, plans[p].src)}

(***************************************************************************)
(* process_one: the pipeline of one track.  Each action is the part of     *)
(* process_one between two accesses to something the tracks share (the     *)
(* directory, the pool).                                                   *)
(***************************************************************************)

\* fsops.cleanup_paths: every path given is removed, best effort; a failure
\* to remove one is never raised
CleanupPaths(files) == {}

\* an except branch that leaves the temp art where it is
CleanupOnFailureSkipped(files) == files

\* line 198: cleanup_paths called from the except branch
CleanupOnFailure(files) == CleanupPaths(files)

\* an except branch that runs the track again
FailRetries(p, exc, f) ==
    /\ fs' = IF plans[p].temp_path \in DOMAIN f
             THEN Remove(f, plans[p].temp_path) ELSE f
    /\ art_files' = art_files
    /\ error' = [error EXCEPT ![p] = exc]
    /\ pc' = [pc EXCEPT ![p] = "audio"]

\* process_one's except branch (the temp output is unlinked when it exists,
\* the temp art is cleaned, the row says "failed" with str(e)); f is the
\* directory as the raising step left it.  An exception the handler does
\* not catch leaves process_one and is stored in the future.
Fail(p, exc, f) ==
    IF HandlerCatches(exc)
    THEN /\ fs' = IF plans[p].temp_path \in DOMAIN f
                  THEN Remove(f, plans[p].temp_path) ELSE f
         /\ art_files' = [art_files EXCEPT ![p] = CleanupOnFailure(@)]
         /\ error' = [error EXCEPT ![p] = exc]
         /\ pc' = [pc EXCEPT ![p] = "failed"]
    ELSE /\ fs' = f
         /\ art_files' = art_files
         /\ error' = [error EXCEPT ![p] = exc]
         /\ pc' = [pc EXCEPT ![p] = "escaped"]

\* A worker takes the oldest queued call; process_one probes the source
\* (_probe_audio_meta never raises) and enters its try block.
Start(p) ==
    /\ pc[p] = "queued"
    /\ \A q \in PlanIds : q < p => pc[q] # "queued"
    /\ WorkerFree
    /\ pc' = [pc EXCEPT ![p] = "audio"]
    /\ Touch(p, SrcPaths(p))
    /\ UNCHANGED <<fs, fs0, settings, jobs, plans, png500, art_files, error,
                   final_target, dest, passed, committed, delete_called,
                   deleted, results, failures, faults, mainpc>>
    /\ UNCHANGED mainvars
    /\ UNCHANGED <<manifest, auxvars>>

\* lines 144-147: what is written to the temp path, the encoder's output
\* (encode_to_temp) or the bytes of the source (copy_mp3_to_temp)
AudioContent(f, plan, p) ==
    IF plan.needs_encode THEN <<"encoded", p>> ELSE f[Resolve(f, plan.src)]

\* AUDIO: encode_to_temp (ffmpeg) or copy_mp3_to_temp (shutil.copy2); both
\* read the source and raise when it is missing or the tool fails.
AudioProduced(p) ==
    /\ pc[p] = "audio"
    /\ IF Exists(fs, plans[p].src)
       THEN \E tool_ok \in EnvChoices :
              /\ Fault(tool_ok)
              /\ IF tool_ok
                 THEN /\ fs' = Write(fs, plans[p].temp_path,
                                      AudioContent(fs, plans[p], p))
                      /\ pc' = [pc EXCEPT ![p] = "tags"]
                      /\ UNCHANGED <<art_files, error>>
                 ELSE Fail(p, "audio", fs)
       ELSE /\ Fail(p, "audio", fs)
            /\ UNCHANGED faults
    /\ Touch(p, SrcPaths(p) \cup {plans[p].temp_path})
    /\ UNCHANGED <<fs0, settings, jobs, plans, png500, final_target, dest,
                   passed, committed, delete_called, deleted, results,
                   failures, mainpc>>
    /\ UNCHANGED mainvars
    /\ UNCHANGED <<manifest, auxvars>>

\* TAGS: read_source_tags(plan.src) (mutagen raises on a missing file), then
\* write_id3_v23_with_apic rewrites the temp file's tags.
Tagged(p) ==
    /\ pc[p] = "tags"
    /\ IF Exists(fs, plans[p].src)
       THEN \E lib_ok \in EnvChoices :
              /\ Fault(lib_ok)
              /\ IF lib_ok
                 THEN /\ fs' = Write(fs, plans[p].temp_path, <<"tagged", p>>)
                      /\ pc' = [pc EXCEPT ![p] = "validate"]
                      /\ UNCHANGED <<art_files, error>>
                 ELSE Fail(p, "tags", fs)
       ELSE /\ Fail(p, "tags", fs)
            /\ UNCHANGED faults
    /\ Touch(p, SrcPaths(p) \cup {plans[p].temp_path})
    /\ UNCHANGED <<fs0, settings, jobs, plans, png500, final_target, dest,
                   passed, committed, delete_called, deleted, results,
                   failures, mainpc>>
    /\ UNCHANGED mainvars
    /\ UNCHANGED <<manifest, auxvars>>

\* The three gates run in the order duration, bitrate, cover: the checks
\* that returned before the one that decided the outcome.
PassedBefore(outcome) ==
    CASE outcome = "duration" -> {}
      [] outcome = "bitrate"  -> {"duration"}
      [] outcome = "cover"    -> {"duration", "bitrate"}
      [] OTHER                -> {"duration", "bitrate", "cover"}

\* config._DEFAULTS_TOML: [artwork] target_px = 500, format = "jpeg"
DefaultArt == [art_target_px |-> ApicPx, art_format |-> "jpeg"]

\* The APIC frames of plan p's temp file after TAGS: the cover normalized
\* for the plan when there is one (write_id3_v23_with_apic is handed png500,
\* None for a plan without art), written over whatever the file held.
ApicsWritten(p) ==
    WriteApic(<<>>, IF png500[p] THEN NormalizeArt(DefaultArt) ELSE NoImage)

\* What the three checks can do for plan p, as <<outcome, env_ok>>: the
\* duration probe of a missing source raises; with the source there, the
\* environment may make the duration differ, the bit rate (checked only when
\* the track was encoded) too low or the cover wrong; the cover check
\* raises anyway when no APIC was written (no normalized cover).
ValidationOutcomes(p) ==
    IF ~Exists(fs, plans[p].src)
    THEN { <<"duration", TRUE>> }
    ELSE { <<o, FALSE>> :
             o \in IF FALSE \in EnvChoices
                   THEN {"duration"}
                        \cup (IF plans[p].needs_encode THEN {"bitrate"} ELSE {})
                        \cup (IF png500[p] THEN {"cover"} ELSE {})
                   ELSE {} }
         \cup { IF ValidateId3AndApic500(ApicsWritten(p)) = ""
                THEN <<"pass", TRUE>>
                ELSE <<"cover", TRUE>> }

\* only the duration check raises, the other two report and return
ValidationRaisesDurationOnly(outcome) == outcome = "duration"

\* a check that does not pass raises (ProcError from the probe, ValueError
\* from the comparison)
ValidationRaises(outcome) == outcome # "pass"

\* VALIDATION: validate_duration_close, validate_bitrate_if_encoded,
\* validate_id3_and_apic_500, in this order; the first that raises ends the
\* track.
Validated(p) ==
    /\ pc[p] = "validate"
    /\ \E o \in ValidationOutcomes(p) :
         /\ Fault(o[2])
         /\ passed' = [passed EXCEPT ![p] = PassedBefore(o[1])]
         /\ IF ValidationRaises(o[1])
            THEN Fail(p, o[1], fs)
            ELSE /\ pc' = [pc EXCEPT ![p] = "commit"]
                 /\ UNCHANGED <<fs, art_files, error>>
    /\ Touch(p, SrcPaths(p) \cup {plans[p].temp_path})
    /\ UNCHANGED <<fs0, settings, jobs, plans, png500, final_target, dest,
                   committed, delete_called, deleted, results, failures,
                   mainpc>>
    /\ UNCHANGED mainvars
    /\ UNCHANGED <<manifest, auxvars>>

\* skip falling through to the replace, as overwrite does
CommitDestSkipFallsThrough(f, plan) ==
    IF Exists(f, plan.target) /\ plan.collision = "version"
    THEN VersionedName(f, plan.target)
    ELSE plan.target

\* atomic_commit up to os.replace: the path the temp file will be moved to,
\* or NoPath when atomic_commit returns the existing target (skip).
CommitDest(f, plan) ==
    IF Exists(f, plan.target)
    THEN CASE plan.collision = "skip"    -> NoPath
           [] plan.collision = "version" -> VersionedName(f, plan.target)
           [] OTHER                      -> plan.target
    ELSE plan.target

\* COMMIT, first part: target.exists() and the collision policy.
CommitResolve(p) ==
    /\ pc[p] = "commit"
    /\ LET d == CommitDest(fs, plans[p])
       IN IF d = NoPath
          THEN /\ final_target' = [final_target EXCEPT ![p] = plans[p].target]
               /\ pc' = [pc EXCEPT ![p] = "delete"]
               /\ UNCHANGED dest
          ELSE /\ dest' = [dest EXCEPT ![p] = d]
               /\ pc' = [pc EXCEPT ![p] = "replace"]
               /\ UNCHANGED final_target
    /\ Touch(p, {plans[p].target})
    /\ UNCHANGED <<fs, fs0, settings, jobs, plans, png500, art_files, error,
                   passed, committed, delete_called, deleted, results,
                   failures, faults, mainpc>>
    /\ UNCHANGED mainvars
    /\ UNCHANGED <<manifest, auxvars>>

\* COMMIT, second part: os.replace(plan.temp_path, target), which the
\* operating system may refuse.
CommitReplace(p) ==
    /\ pc[p] = "replace"
    /\ \E os_ok \in EnvChoices :
         /\ Fault(os_ok)
         /\ IF os_ok
            THEN /\ fs' = Replace(fs, plans[p].temp_path, dest[p])
                 /\ final_target' = [final_target EXCEPT ![p] = dest[p]]
                 /\ committed' = [committed EXCEPT ![p] = TRUE]
                 /\ pc' = [pc EXCEPT ![p] = "delete"]
                 /\ UNCHANGED <<art_files, error>>
            ELSE /\ Fail(p, "commit", fs)
                 /\ UNCHANGED <<final_target, committed>>
    /\ Touch(p, {plans[p].temp_path, dest[p]})
    /\ UNCHANGED <<fs0, settings, jobs, plans, png500, dest, passed,
                   delete_called, deleted, results, failures, mainpc>>
    /\ UNCHANGED mainvars
    /\ UNCHANGED <<manifest, auxvars>>

\* every source is a candidate for deletion
DoDeleteAnyCodec(plan) == TRUE

\* line 164: only non-MP3 sources are candidates for deletion
DoDelete(plan) == plan.src_codec # "mp3"

\* the paths compared as written, unresolved
SamePathUnresolved(f, final, src) == final = src

\* lines 167-170: final_target.resolve() == plan.src.resolve()
SamePath(f, final, src) == Resolve(f, final) = Resolve(f, src)

\* lines 166-172: whether delete_source(plan) is called
DeleteAttempted(p) ==
    /\ DoDelete(plans[p])
    /\ settings.replace_in_place
    /\ ~SamePath(fs, final_target[p], plans[p].src)

\* fsops.delete_source: the outcomes for the directory f, the system
\* answering env_ok.  send2trash raises for a path that does not exist;
\* unlink's FileNotFoundError is swallowed; either may be refused for a file
\* that is there.
DeleteSource(f, plan, env_ok) ==
    IF plan.src \in DOMAIN f
    THEN IF env_ok
         THEN [raised |-> FALSE, fs |-> Remove(f, plan.src)]
         ELSE [raised |-> TRUE,  fs |-> f]
    ELSE IF plan.delete_mode = "trash"
    THEN [raised |-> TRUE,  fs |-> f]
    ELSE [raised |-> FALSE, fs |-> f]

\* After the commit: the deletion decision, delete_source, cleanup of the
\* temp art (cleanup_paths, best effort), the probe of the destination and
\* the "ok" row.
SourceDeletedOrKept(p) ==
    /\ pc[p] = "delete"
    /\ IF DeleteAttempted(p)
       THEN /\ delete_called' = [delete_called EXCEPT ![p] = TRUE]
            /\ \E env_ok \in (IF plans[p].src \in DOMAIN fs
                               THEN EnvChoices ELSE {TRUE}) :
                 LET o == DeleteSource(fs, plans[p], env_ok)
                 IN /\ Fault(env_ok)
                    /\ IF o.raised
                       THEN /\ Fail(p, "delete", o.fs)
                            /\ UNCHANGED deleted
                       ELSE /\ fs' = o.fs
                            /\ deleted' = [deleted EXCEPT ![p] = TRUE]
                            /\ art_files' = [art_files EXCEPT ![p] = CleanupPaths(@)]
                            /\ pc' = [pc EXCEPT ![p] = "ok"]
                            /\ UNCHANGED error
       ELSE /\ art_files' = [art_files EXCEPT ![p] = CleanupPaths(@)]
            /\ pc' = [pc EXCEPT ![p] = "ok"]
            /\ UNCHANGED <<fs, delete_called, deleted, error, faults>>
    /\ Touch(p, {final_target[p]}
                \cup (IF DoDelete(plans[p]) /\ settings.replace_in_place
                      THEN SrcPaths(p) ELSE {}))
    /\ UNCHANGED <<fs0, settings, jobs, plans, png500, final_target, dest,
                   passed, committed, results, failures, mainpc>>
    /\ UNCHANGED mainvars
    /\ UNCHANGED <<manifest, auxvars>>

(***************************************************************************)
(* main: the as_completed loop and the exit status.                        *)
(***************************************************************************)
\* a loop that may be handed a future it has received already
CollectedNone == {}

\* the futures as_completed has yielded so far
Collected == { p \in PlanIds : results[p] # "" }

\* for fut in as_completed(futs): fut.result() returns the row, or raises
\* what process_one raised (main catches IpodPrepError only)
Collect(p) ==
    /\ mainpc = "running"
    /\ pc[p] \in Terminal
    /\ p \notin Collected
    /\ IF pc[p] = "escaped"
       THEN /\ mainpc' = "crashed"
            /\ UNCHANGED <<results, failures>>
       ELSE /\ results' = [results EXCEPT ![p] = pc[p]]
            /\ failures' = IF pc[p] = "ok" THEN failures ELSE failures + 1
            /\ UNCHANGED mainpc
    /\ UNCHANGED <<fs, fs0, settings, jobs, plans, png500, art_files, pc,
                   error, final_target, dest, passed, committed,
                   delete_called, deleted, touched, faults>>
    /\ UNCHANGED mainvars
    /\ UNCHANGED <<manifest, auxvars>>

\* the loop left after the first future
LoopDoneAfterFirst == Collected # {}

\* lines 277-282: as_completed has yielded every future
LoopDone == Collected = PlanIds

\* lines 286-305: the document of a run, with its summary and, under
\* "tracks", the rows received, here by the plan whose call returned them
RunManifest(rows) ==
    [mode   |-> "execute",
     total  |-> Cardinality({ p \in DOMAIN rows : rows[p] # "" }),
     ok     |-> Cardinality({ p \in DOMAIN rows : rows[p] = "ok" }),
     failed |-> Cardinality({ p \in DOMAIN rows : rows[p] = "failed" }),
     tracks |-> [ p \in { q \in DOMAIN rows : rows[q] # "" } |->
                    [src |-> plans[p].src, result |-> rows[p]] ]]

\* the loop is over: the manifest is written and main returns 1 or 0
Finish ==
    /\ mainpc = "running"
    /\ LoopDone
    /\ manifest' = Append(manifest, RunManifest(results))
    /\ mainpc' = IF failures > 0 THEN "exit1" ELSE "exit0"
    /\ UNCHANGED <<fs, fs0, settings, jobs, plans, png500, art_files, pc,
                   error, final_target, dest, passed, committed,
                   delete_called, deleted, touched, results, failures,
                   faults>>
    /\ UNCHANGED mainvars
    /\ UNCHANGED auxvars

Next ==
    \/ \E p \in PlanIds : Start(p)
    \/ \E p \in PlanIds : AudioProduced(p)
    \/ \E p \in PlanIds : Tagged(p)
    \/ \E p \in PlanIds : Validated(p)
    \/ \E p \in PlanIds : CommitResolve(p)
    \/ \E p \in PlanIds : CommitReplace(p)
    \/ \E p \in PlanIds : SourceDeletedOrKept(p)
    \/ \E p \in PlanIds : Collect(p)
    \/ Finish

Spec == Init /\ [][Next]_vars

\* the workers and main keep running: threads are scheduled, the external
\* tools return
FairSpec == Spec /\ WF_vars(Next)

(***************************************************************************)
(* main before the pool: settings, planning, artwork, dry run.             *)
(***************************************************************************)
pipevars == <<pc, error, final_target, dest, passed, committed,
              delete_called, deleted, touched, results, failures>>

\* lines 211-226 and 315-317: load_settings; main prints a ConfigError and
\* returns 2, has no handler for another exception
LoadSettings ==
    /\ mainpc = "start"
    /\ LET r == LoadSettingsFrom(config)
       IN /\ settings' = r.value
          /\ mainpc' = CASE r.error = ""            -> "plan"
                         [] r.error = "ConfigError" -> "exit2"
                         [] OTHER                   -> "crashed"
    /\ UNCHANGED <<fs, fs0, jobs, plans, png500, art_files,
                   faults, pipevars, mainvars>>
    /\ UNCHANGED <<manifest, auxvars>>

\* a planner that returns the empty list
PlanErrorNeverRaised(ps) == FALSE

\* line 56: an empty file list raises PlanError
PlanErrorRaised(ps) == ps = <<>>

\* line 228: build_run_plan; PlanError is caught by main, which returns 2
BuildPlan ==
    /\ mainpc = "plan"
    /\ LET ps == BuildRunPlan(fs, input_paths, settings, 0)
       IN IF PlanErrorRaised(ps)
          THEN /\ mainpc' = "exit2"
               /\ UNCHANGED <<plans, png500, art_files, pipevars>>
          ELSE /\ mainpc' = "art"
               /\ plans' = ps
               /\ png500' = Fresh(ps, FALSE)
               /\ art_files' = Fresh(ps, {})
               /\ pc' = Fresh(ps, "planned")
               /\ error' = Fresh(ps, "")
               /\ final_target' = Fresh(ps, NoPath)
               /\ dest' = Fresh(ps, NoPath)
               /\ passed' = Fresh(ps, {})
               /\ committed' = Fresh(ps, FALSE)
               /\ delete_called' = Fresh(ps, FALSE)
               /\ deleted' = Fresh(ps, FALSE)
               /\ touched' = Fresh(ps, {})
               /\ results' = Fresh(ps, "")
               /\ UNCHANGED failures
    /\ UNCHANGED <<fs, fs0, settings, jobs, faults, mainvars>>
    /\ UNCHANGED <<manifest, auxvars>>

\* The step of the artwork of one plan the environment makes fail, if any:
\* the probe runs only when there is no folder file, the extraction only
\* when a source was found, the normalization only when the extraction
\* left a file.
ArtFaults ==
    {"none"}
    \cup (IF faults < MaxFaults
          THEN (IF FindFolderArt(folder) = "" THEN {"probe"} ELSE {})
               \cup (IF DetectArtSource(folder, streams, TRUE).kind # "none"
                     THEN {"extract", "normalize"} ELSE {})
          ELSE {})

\* whether the exception of a failed artwork step is caught where it is
\* raised: detect_art_source catches the probe's ProcError, nothing catches
\* what shutil.copy2 and run_ffmpeg raise in extract_art_to_file and
\* normalize_art_to_png_500
ArtFaultCaught(fault) == fault = "probe"

\* lines 232-236, one turn of the loop: detect_art_source,
\* extract_art_to_file, normalize_art_to_png_500, rows.append.  An
\* exception that is not caught leaves main (main catches IpodPrepError,
\* ProcError is a RuntimeError).
ResolveArt(p) ==
    /\ mainpc = "art"
    /\ p = Len(art) + 1
    /\ \E fault \in ArtFaults :
         LET a == DetectArtSource(folder, streams, fault # "probe")
         IN /\ faults' = IF fault = "none" THEN faults ELSE faults + 1
            /\ IF fault = "none" \/ ArtFaultCaught(fault)
               THEN /\ art' = Append(art, a)
                    /\ png500' = [png500 EXCEPT ![p] = a.kind # "none"]
                    /\ art_files' = [art_files EXCEPT ![p] =
                                       IF a.kind # "none"
                                       THEN {"src_image", "png500"} ELSE {}]
                    /\ UNCHANGED mainpc
               ELSE /\ mainpc' = "crashed"
                    /\ art_files' = [art_files EXCEPT ![p] =
                                       IF fault = "normalize"
                                       THEN {"src_image"} ELSE {}]
                    /\ UNCHANGED <<art, png500>>
    /\ UNCHANGED <<fs, fs0, settings, jobs, plans, pipevars, input_paths,
                   dry_run, config, folder, streams, replan>>
    /\ UNCHANGED <<manifest, auxvars>>

\* the loop is left after its first turn
ArtResolvedFirstOnly == Len(art) >= 1

\* the loop of lines 232-236 went through every plan
ArtResolved == Len(art) = Len(plans)

\* the flag is not looked at
DryRunIgnored == FALSE

\* line 242: if ns.dry_run
DryRunRequested == dry_run

\* lines 248-260: the dry run's document, with "tracks_planned"
DryRunManifest(rows) ==
    [mode |-> "dry-run", total |-> Len(rows), ok |-> 0, failed |-> 0]

\* lines 242-264: the dry run prints the plan, removes the temp art, writes
\* its manifest and returns 0
DryRun ==
    /\ mainpc = "art"
    /\ ArtResolved
    /\ DryRunRequested
    /\ art_files' = [ p \in PlanIds |-> CleanupPaths(art_files[p]) ]
    /\ manifest' = Append(manifest, DryRunManifest(art))
    /\ mainpc' = "exit0"
    /\ UNCHANGED <<fs, fs0, settings, jobs, plans, png500, faults, pipevars,
                   mainvars>>
    /\ UNCHANGED auxvars

\* lines 266-275: the pool is created and every row is submitted
Submit ==
    /\ mainpc = "art"
    /\ ArtResolved
    /\ ~DryRunRequested
    /\ pc' = Fresh(plans, "queued")
    /\ mainpc' = "running"
    /\ UNCHANGED <<fs, fs0, settings, jobs, plans, png500, art_files, error,
                   final_target, dest, passed, committed, delete_called,
                   deleted, touched, results, failures, faults, mainvars>>
    /\ UNCHANGED <<manifest, auxvars>>

\* the artwork a run that is followed to its end may find: a cover file
\* beside the sources, a picture attached to every source, or nothing
RunArtInputs ==
    { <<{"cover.jpg"}, <<>>>>,
      <<{}, <<[index |-> 1, attached_pic |-> TRUE]>>>>,
      <<{}, <<>>>> }

\* main is called
MainInit ==
    \E files \in SUBSET DirUniverse, linked \in BOOLEAN,
       s \in SettingsSet, n \in 1..MaxJobs, rts \in RunRootSeqs,
       ai \in RunArtInputs, dr \in BOOLEAN,
       cfg \in {"ok", "rejected", "malformed"} :
        LET f  == InitialDir(files, linked)
            ps == BuildRunPlan(f, rts, s, 0)
        IN /\ linked => (LinkPath \in files /\ WithSuffix(LinkPath, "mp3") \in files)
           /\ Len(ps) \in 0..MaxBatch
           /\ \A q \in files : q \in Srcs(ps) \/ Suffix(q) = "mp3"
           /\ fs = f
           /\ fs0 = f
           /\ settings = NoSettings
           /\ jobs = n
           /\ input_paths = rts
           /\ dry_run = dr
           \* the file yields s, or has one key load_settings does not accept
           /\ config = CASE cfg = "ok" -> ConfigOf(s)
                          [] cfg = "rejected" ->
                               [ConfigOf(s) EXCEPT !.raw.profile = "V0"]
                          [] OTHER ->
                               [ConfigOf(s) EXCEPT !.raw.target_px = Text("big")]
           /\ folder = ai[1]
           /\ streams = ai[2]
           /\ art = <<>>
           /\ replan = <<>>
           /\ plans = <<>>
           /\ png500 = <<>>
           /\ art_files = <<>>
           /\ pc = <<>>
           /\ error = <<>>
           /\ final_target = <<>>
           /\ dest = <<>>
           /\ passed = <<>>
           /\ committed = <<>>
           /\ delete_called = <<>>
           /\ deleted = <<>>
           /\ touched = <<>>
           /\ results = <<>>
           /\ failures = 0
           /\ faults = 0
           /\ mainpc = "start"
           /\ AuxIdle

MainNext ==
    \/ LoadSettings
    \/ BuildPlan
    \/ \E p \in PlanIds : ResolveArt(p)
    \/ DryRun
    \/ Submit
    \/ Next

\* one invocation of main, from its call to its return
MainSpec == MainInit /\ [][MainNext]_vars

\* the status the process ends with: what main returned, passed to
\* SystemExit, or 1 when an exception left main; -1 while main is running
ExitStatus ==
    CASE mainpc = "exit0"   -> 0
      [] mainpc = "exit1"   -> 1
      [] mainpc = "exit2"   -> 2
      [] mainpc = "crashed" -> 1
      [] OTHER              -> -1

(***************************************************************************)
(* The planner alone, on larger trees and command lines.                   *)
(***************************************************************************)
MaxRoots == 2      \* most paths on the command line

\* the tree: audio files in "d" and in "d/s", a text file
PlannerUniverse ==
    { <<"a", <<>>, "flac", "d">>, <<"a", <<>>, "mp3", "d">>,
      <<"n", <<>>, "txt", "d">>,
      <<"a", <<>>, "flac", "d/s">>, <<"b", <<>>, "wav", "d/s">> }

\* the paths given: any file of the tree, there or not, and the directories
PlannerRoots == PlannerUniverse \cup {Dir, SubDir}
PlannerRootSeqs == UNION { [1..k -> PlannerRoots] : k \in 1..MaxRoots }

DefaultSettings ==
    [replace_in_place |-> TRUE, delete_mode |-> "trash",
     collision |-> "overwrite"]

\* main after load_settings, about to plan
PlannerInit ==
    \E files \in SUBSET PlannerUniverse, linked \in BOOLEAN,
       rts \in PlannerRootSeqs :
        /\ linked => (LinkPath \in files /\ WithSuffix(LinkPath, "mp3") \in files)
        /\ fs = InitialDir(files, linked)
        /\ fs0 = InitialDir(files, linked)
        /\ settings = DefaultSettings
        /\ jobs = 1
        /\ input_paths = rts
        /\ dry_run = FALSE
        /\ config = ConfigOf(DefaultSettings)
        /\ folder = {}
        /\ streams = <<>>
        /\ art = <<>>
        /\ replan = <<>>
        /\ plans = <<>>
        /\ png500 = <<>>
        /\ art_files = <<>>
        /\ pc = <<>>
        /\ error = <<>>
        /\ final_target = <<>>
        /\ dest = <<>>
        /\ passed = <<>>
        /\ committed = <<>>
        /\ delete_called = <<>>
        /\ deleted = <<>>
        /\ touched = <<>>
        /\ results = <<>>
        /\ failures = 0
        /\ faults = 0
        /\ mainpc = "plan"
        /\ AuxIdle

\* build_run_plan called once more on the same paths, the tree unchanged
Replan ==
    /\ mainpc = "art"
    /\ replan = <<>>
    /\ replan' = BuildRunPlan(fs, input_paths, settings, Len(plans))
    /\ UNCHANGED <<fs, fs0, settings, jobs, plans, png500, art_files, faults,
                   mainpc, pipevars, input_paths, dry_run, config, folder,
                   streams, art>>
    /\ UNCHANGED <<manifest, auxvars>>

PlannerNext == BuildPlan \/ Replan

PlannerSpec == PlannerInit /\ [][PlannerNext]_vars

(***************************************************************************)
(* The artwork of one plan alone, for every set of cover files and every   *)
(* list of streams.                                                        *)
(***************************************************************************)
CandidateSet == { FolderCandidates[i] : i \in DOMAIN FolderCandidates }

\* main after build_run_plan returned one plan
ArtInit ==
    \E present \in SUBSET CandidateSet, strms \in StreamSeqs :
        LET f  == InitialDir({LinkPath}, FALSE)
            ps == BuildRunPlan(f, <<LinkPath>>, DefaultSettings, 0)
        IN /\ fs = f
           /\ fs0 = f
           /\ settings = DefaultSettings
           /\ jobs = 1
           /\ input_paths = <<LinkPath>>
           /\ dry_run = FALSE
           /\ config = ConfigOf(DefaultSettings)
           /\ folder = present
           /\ streams = strms
           /\ art = <<>>
           /\ replan = <<>>
           /\ plans = ps
           /\ png500 = Fresh(ps, FALSE)
           /\ art_files = Fresh(ps, {})
           /\ pc = Fresh(ps, "planned")
           /\ error = Fresh(ps, "")
           /\ final_target = Fresh(ps, NoPath)
           /\ dest = Fresh(ps, NoPath)
           /\ passed = Fresh(ps, {})
           /\ committed = Fresh(ps, FALSE)
           /\ delete_called = Fresh(ps, FALSE)
           /\ deleted = Fresh(ps, FALSE)
           /\ touched = Fresh(ps, {})
           /\ results = Fresh(ps, "")
           /\ failures = 0
           /\ faults = 0
           /\ mainpc = "art"
           /\ AuxIdle

ArtNext == \E p \in PlanIds : ResolveArt(p)

ArtSpec == ArtInit /\ [][ArtNext]_vars

\* the same run with a pool of one worker: the tracks, and so their commits,
\* follow one another
SeqInit == Init /\ jobs = 1

SeqSpec == SeqInit /\ [][Next]_vars

(***************************************************************************)
(* One track's files: the cover that is embedded and the three checks of   *)
(* the produced file.  An image is its side in pixels and its format, an   *)
(* APIC frame an image with its picture type; durations are in             *)
(* milliseconds, bit rates in bits per second.                             *)
(***************************************************************************)


GateSources == { <<"a", <<>>, "flac", "d">>, <<"a", <<>>, "mp3", "d">> }

\* One track whose audio is at its temp path, about to be tagged
\* (gate = "tags"), or the three checks handed a produced file as it is
\* (gate = "duration").
GateInit ==
    \E src \in GateSources, s \in ArtSettings, has_art \in BOOLEAN,
       frames \in FrameSeqs, r \in Readings, g \in {"tags", "duration"} :
        LET f  == InitialDir({src}, FALSE)
            ps == BuildRunPlan(f, <<src>>, DefaultSettings, 0)
        IN /\ fs = f
           /\ fs0 = f
           /\ settings = s
           /\ jobs = 1
           /\ input_paths = <<src>>
           /\ dry_run = FALSE
           /\ config = ConfigOf(DefaultSettings)
           /\ folder = IF has_art THEN {"cover.jpg"} ELSE {}
           /\ streams = <<>>
           /\ art = <<DetectArtSource(IF has_art THEN {"cover.jpg"} ELSE {},
                                      <<>>, TRUE)>>
           /\ replan = <<>>
           /\ plans = ps
           /\ png500 = Fresh(ps, has_art)
           /\ art_files = Fresh(ps, IF has_art THEN {"src_image", "png500"}
                                    ELSE {})
           /\ pc = Fresh(ps, IF g = "tags" THEN "tags" ELSE "validate")
           /\ error = Fresh(ps, "")
           /\ final_target = Fresh(ps, NoPath)
           /\ dest = Fresh(ps, NoPath)
           /\ passed = Fresh(ps, {})
           /\ committed = Fresh(ps, FALSE)
           /\ delete_called = Fresh(ps, FALSE)
           /\ deleted = Fresh(ps, FALSE)
           /\ touched = Fresh(ps, {})
           /\ results = Fresh(ps, "")
           /\ failures = 0
           /\ faults = 0
           /\ mainpc = "running"
           /\ manifest = <<>>
           /\ cover_image = IF has_art THEN NormalizeArt(s) ELSE NoImage
           /\ apics = frames
           /\ readings = r
           /\ gate = g
           /\ clock = 0
           /\ run_dirs = <<>>
           /\ logs = <<>>
           /\ GuiIdle

\* what no step between tagging and commit changes
gateframe == <<fs, fs0, settings, jobs, plans, png500, art_files,
               final_target, dest, committed, delete_called, deleted,
               results, failures, faults, mainpc, mainvars,
               manifest, cover_image, readings, clock, run_dirs, logs,
               guivars>>

\* a check raised: process_one's except branch
GateFails(exc) ==
    /\ gate' = "failed"
    /\ pc' = [pc EXCEPT ![1] = "failed"]
    /\ error' = [error EXCEPT ![1] = exc]

\* cli lines 150-152: write_id3_v23_with_apic(plan.temp_path, png500, ...)
TagTemp ==
    /\ gate = "tags"
    /\ IF cover_image # NoImage /\ LoadPngBytes(cover_image) # ""
       THEN /\ GateFails(LoadPngBytes(cover_image))
            /\ UNCHANGED <<apics, passed>>
       ELSE /\ apics' = WriteApic(apics, cover_image)
            /\ gate' = "duration"
            /\ pc' = [pc EXCEPT ![1] = "validate"]
            /\ UNCHANGED <<error, passed>>
    /\ Touch(1, {plans[1].temp_path})
    /\ UNCHANGED gateframe

\* cli lines 155-156
GateDuration ==
    /\ gate = "duration"
    /\ LET e == ValidateDurationClose(readings)
       IN IF e # ""
          THEN GateFails(e) /\ UNCHANGED passed
          ELSE /\ gate' = "bitrate"
               /\ passed' = [passed EXCEPT ![1] = @ \cup {"duration"}]
               /\ UNCHANGED <<pc, error>>
    /\ UNCHANGED <<apics, touched, gateframe>>

\* cli line 157
GateBitrate ==
    /\ gate = "bitrate"
    /\ LET e == ValidateBitrateIfEncoded(plans[1], readings)
       IN IF e # ""
          THEN GateFails(e) /\ UNCHANGED passed
          ELSE /\ gate' = "cover"
               /\ passed' = [passed EXCEPT ![1] = @ \cup {"bitrate"}]
               /\ UNCHANGED <<pc, error>>
    /\ UNCHANGED <<apics, touched, gateframe>>

\* cli line 158
GateCover ==
    /\ gate = "cover"
    /\ LET e == ValidateId3AndApic500(apics)
       IN IF e # ""
          THEN GateFails(e) /\ UNCHANGED passed
          ELSE /\ gate' = "passed"
               /\ pc' = [pc EXCEPT ![1] = "commit"]
               /\ passed' = [passed EXCEPT ![1] = @ \cup {"cover"}]
               /\ UNCHANGED error
    /\ UNCHANGED <<apics, touched, gateframe>>

GateNext == TagTemp \/ GateDuration \/ GateBitrate \/ GateCover

GateSpec == GateInit /\ [][GateNext]_vars

(***************************************************************************)
(* Run directories: two invocations of main on one machine, each calling   *)
(* make_run_dir and, later, write_manifest.  A run directory is named by   *)
(* the second in which it is made.                                         *)
(***************************************************************************)
MaxClock == 3       \* the seconds that pass while the invocations run
Invocations == {1, 2}

NoDir == <<>>

\* runlog.make_run_dir: base / strftime("run-%Y%m%d-%H%M%S"), made with
\* mkdir(parents=True, exist_ok=True)
RunDirName(now) == <<"run", now>>

\* the name the invocation i is given at the second now
RunDirFor(i, now) == RunDirName(now)

RunDirInit ==
    /\ fs = <<>>
    /\ fs0 = <<>>
    /\ settings = DefaultSettings
    /\ jobs = 1
    /\ input_paths = <<>>
    /\ dry_run = FALSE
    /\ config = ConfigOf(DefaultSettings)
    /\ folder = {}
    /\ streams = <<>>
    /\ art = <<>>
    /\ replan = <<>>
    /\ plans = <<>>
    /\ png500 = <<>>
    /\ art_files = <<>>
    /\ pc = <<>>
    /\ error = <<>>
    /\ final_target = <<>>
    /\ dest = <<>>
    /\ passed = <<>>
    /\ committed = <<>>
    /\ delete_called = <<>>
    /\ deleted = <<>>
    /\ touched = <<>>
    /\ results = <<>>
    /\ failures = 0
    /\ faults = 0
    /\ mainpc = "running"
    /\ manifest = <<>>
    /\ cover_image = NoImage
    /\ apics = <<>>
    /\ readings = <<>>
    /\ gate = "idle"
    /\ clock = 0
    /\ run_dirs = [ i \in Invocations |-> NoDir ]
    /\ logs = <<>>
    /\ GuiIdle

\* what the run directories do not touch
rundirframe == <<fs, fs0, settings, jobs, plans, png500, art_files, pc,
                 error, final_target, dest, passed, committed,
                 delete_called, deleted, touched, results, failures, faults,
                 mainpc, mainvars, cover_image, apics, readings, gate,
                 guivars>>

\* a second passes
Tick ==
    /\ clock < MaxClock
    /\ clock' = clock + 1
    /\ UNCHANGED <<run_dirs, logs, manifest, rundirframe>>

\* cli line 239: run_dir = make_run_dir(); a directory that exists already
\* is no error
MakeRunDir(i) ==
    /\ run_dirs[i] = NoDir
    /\ run_dirs' = [run_dirs EXCEPT ![i] = RunDirFor(i, clock)]
    /\ UNCHANGED <<clock, logs, manifest, rundirframe>>

\* cli lines 261 and 306: write_manifest(run_dir, manifest) writes
\* run_dir / "manifest.json", replacing the file when it is there
WriteManifest(i) ==
    /\ run_dirs[i] # NoDir
    /\ \A k \in DOMAIN manifest : manifest[k].by # i
    /\ logs' = [ d \in DOMAIN logs \cup {run_dirs[i]} |->
                   IF d = run_dirs[i] THEN i ELSE logs[d] ]
    /\ manifest' = Append(manifest, [by |-> i, dir |-> run_dirs[i]])
    /\ UNCHANGED <<clock, run_dirs, rundirframe>>

RunDirNext ==
    \/ Tick
    \/ \E i \in Invocations : MakeRunDir(i)
    \/ \E i \in Invocations : WriteManifest(i)

RunDirSpec == RunDirInit /\ [][RunDirNext]_vars

(***************************************************************************)
(* main up to the planning, for every configuration file.                  *)
(***************************************************************************)
ConfigInit ==
    \E cfg \in ConfigFiles :
        LET src == <<"a", <<>>, "flac", "d">>
            f   == InitialDir({src}, FALSE)
        IN /\ fs = f
           /\ fs0 = f
           /\ settings = NoSettings
           /\ jobs = 1
           /\ input_paths = <<src>>
           /\ dry_run = FALSE
           /\ config = cfg
           /\ folder = {}
           /\ streams = <<>>
           /\ art = <<>>
           /\ replan = <<>>
           /\ plans = <<>>
           /\ png500 = <<>>
           /\ art_files = <<>>
           /\ pc = <<>>
           /\ error = <<>>
           /\ final_target = <<>>
           /\ dest = <<>>
           /\ passed = <<>>
           /\ committed = <<>>
           /\ delete_called = <<>>
           /\ deleted = <<>>
           /\ touched = <<>>
           /\ results = <<>>
           /\ failures = 0
           /\ faults = 0
           /\ mainpc = "start"
           /\ AuxIdle

ConfigNext == LoadSettings \/ BuildPlan

ConfigSpec == ConfigInit /\ [][ConfigNext]_vars

(***************************************************************************)
(* The text frames of one track: read_source_tags and the text part of     *)
(* write_id3_v23_with_apic.  A tag map is a function from the keys it      *)
(* holds to their values; a key of the source is Absent, empty or set.     *)
(***************************************************************************)
\* what dict.get answers for a key the map does not hold
Absent == "<absent>"

Put(d, k, v) == [ x \in DOMAIN d \cup {k} |-> IF x = k THEN v ELSE d[x] ]
Get(d, k) == IF k \in DOMAIN d THEN d[k] ELSE Absent

\* "if value": neither None nor the empty string
Truthy(v) == v \notin {Absent, ""}

\* a track or disc number as mutagen shows it: no such key, one number, or a
\* (number, total) pair whose parts may be 0
NumberTags ==
    { [kind |-> "absent", no |-> 0, total |-> 0],
      [kind |-> "text", no |-> 3, total |-> 0],
      [kind |-> "pair", no |-> 3, total |-> 12],
      [kind |-> "pair", no |-> 0, total |-> 12],
      [kind |-> "pair", no |-> 3, total |-> 0] }

SourceTags ==
    [ title : {Absent, "", "v"}, album : {Absent, "", "v"},
      albumartist : {Absent, "", "v"}, artist : {Absent, "v"},
      genre : {Absent, "v"}, date : {Absent, "v"},
      tracknumber : NumberTags, totaltracks : {Absent, "12"},
      discnumber : { n \in NumberTags : n.kind = "absent" \/ n.no * n.total # 0 },
      totaldiscs : {Absent, "2"} ]

CopiedKeys == {"artist", "album", "albumartist", "title", "date", "genre"}

\* File(src) is None or has no tags
NoTags(t) ==
    /\ \A k \in CopiedKeys : t[k] = Absent
    /\ t.tracknumber.kind = "absent" /\ t.totaltracks = Absent
    /\ t.discnumber.kind = "absent" /\ t.totaldiscs = Absent

\* tagging.read_source_tags, lines 52-62 and 64-74: the number and the total
PullNumber(d, num, total, key, total_key) ==
    LET d1 == CASE num.kind = "pair" ->
                     Put(d, key, IF num.no # 0 THEN ToString(num.no) ELSE "")
                [] num.kind = "text" -> Put(d, key, ToString(num.no))
                [] OTHER -> d
        d2 == IF num.kind = "pair" /\ num.total # 0
              THEN Put(d1, total_key, ToString(num.total))
              ELSE d1
    IN IF total # Absent /\ total_key \notin DOMAIN d2
       THEN Put(d2, total_key, total)
       ELSE d2

\* lines 33-35 and 77-78: the title falls back to the file's stem
TitleFallback(d, stem) ==
    IF ~Truthy(Get(d, "title")) THEN Put(d, "title", stem) ELSE d

\* tagging.read_source_tags
ReadSourceTags(t, stem) ==
    IF NoTags(t) THEN TitleFallback(<<>>, stem)
    ELSE LET copied == [ k \in { x \in CopiedKeys : Truthy(t[x]) } |-> t[k] ]
             tracked == PullNumber(copied, t.tracknumber, t.totaltracks,
                                   "track", "tracktotal")
             disced  == PullNumber(tracked, t.discnumber, t.totaldiscs,
                                   "disc", "disctotal")
         IN TitleFallback(disced, stem)

\* set_text: the frame is added only for a value
SetText(frames, id, value) ==
    IF Truthy(value) THEN Put(frames, id, value) ELSE frames

\* TRCK and TPOS: "no/total", "no", or no frame
SetNumber(frames, id, no, total) ==
    IF Truthy(no) /\ Truthy(total) THEN Put(frames, id, no \o "/" \o total)
    ELSE IF Truthy(no) THEN Put(frames, id, no)
    ELSE frames

\* tagging.write_id3_v23_with_apic, lines 143-164: the text frames
WriteTextFrames(frames, tags) ==
    LET album_artist == IF Truthy(Get(tags, "albumartist"))
                        THEN Get(tags, "albumartist")
                        ELSE Get(tags, "album_artist")
        f1 == SetText(frames, "TIT2", Get(tags, "title"))
        f2 == SetText(f1, "TALB", Get(tags, "album"))
        f3 == SetText(f2, "TPE1", Get(tags, "artist"))
        f4 == SetText(f3, "TPE2", album_artist)
        f5 == SetText(f4, "TCON", Get(tags, "genre"))
        f6 == SetNumber(f5, "TRCK", Get(tags, "track"), Get(tags, "tracktotal"))
        f7 == SetNumber(f6, "TPOS", Get(tags, "disc"), Get(tags, "disctotal"))
    IN SetText(f7, "TDRC", Get(tags, "date"))

\* one track of a batch of one, its pipeline at the given step, no cover
TrackAt(src, step) ==
    LET f  == InitialDir({src}, FALSE)
        ps == BuildRunPlan(f, <<src>>, DefaultSettings, 0)
    IN /\ fs = f
       /\ fs0 = f
       /\ settings = DefaultSettings
       /\ jobs = 1
       /\ input_paths = <<src>>
       /\ dry_run = FALSE
       /\ config = ConfigOf(DefaultSettings)
       /\ folder = {}
       /\ streams = <<>>
       /\ art = <<NoArt>>
       /\ replan = <<>>
       /\ plans = ps
       /\ png500 = Fresh(ps, FALSE)
       /\ art_files = Fresh(ps, {})
       /\ pc = Fresh(ps, step)
       /\ error = Fresh(ps, "")
       /\ final_target = Fresh(ps, NoPath)
       /\ dest = Fresh(ps, NoPath)
       /\ passed = Fresh(ps, {})
       /\ committed = Fresh(ps, FALSE)
       /\ delete_called = Fresh(ps, FALSE)
       /\ deleted = Fresh(ps, FALSE)
       /\ touched = Fresh(ps, {})
       /\ results = Fresh(ps, "")
       /\ failures = 0
       /\ faults = 0
       /\ mainpc = "running"
       /\ manifest = <<>>

TagInit ==
    \E t \in SourceTags :
        /\ TrackAt(<<"a", <<>>, "flac", "d">>, "tags")
        /\ cover_image = NoImage
        /\ apics = <<>>
        /\ readings = <<>>
        /\ gate = "idle"
        /\ clock = 0
        /\ run_dirs = <<>>
        /\ logs = <<>>
        /\ src_tags = t
        /\ out_tags = <<>>
        /\ emitted = <<>>
        /\ queue = <<>>
        /\ queue_set = {}
        /\ list_items = <<>>

\* cli lines 149-152: read_source_tags(plan.src), write_id3_v23_with_apic
TagText ==
    /\ pc[1] = "tags"
    /\ out_tags' = WriteTextFrames(out_tags,
                                   ReadSourceTags(src_tags, Stem(plans[1].src)))
    /\ pc' = [pc EXCEPT ![1] = "validate"]
    /\ Touch(1, {plans[1].src, plans[1].temp_path})
    /\ UNCHANGED <<fs, fs0, settings, jobs, plans, png500, art_files, error,
                   final_target, dest, passed, committed, delete_called,
                   deleted, results, failures, faults, mainpc, mainvars,
                   manifest, cover_image, apics, readings, gate, clock,
                   run_dirs, logs, src_tags, emitted, queue, queue_set,
                   list_items>>

TagSpec == TagInit /\ [][TagText]_vars

(***************************************************************************)
(* The graphical runner: Runner.doRun submits the same pipelines to a pool *)
(* and emits one trackResult signal per future as_completed yields.        *)
(***************************************************************************)
\* Path.name: the path without its directory
Name(path) == <<path[1], path[2], path[3]>>

\* the message _process_one returns: the final target's name, or the error
Message(p) ==
    IF pc[p] = "ok" THEN <<"ok", Name(final_target[p])>>
    ELSE <<"failed", error[p]>>

\* the row zip pairs with the future of plan p: rows are taken in the order
\* of submission, one per future yielded
RowFor(p) == Cardinality(Collected) + 1

\* workers lines 209-217: one turn of the loop over
\* zip(as_completed(futs), rows); "of" records the plan whose future this is
GuiCollect(p) ==
    /\ mainpc = "running"
    /\ pc[p] \in Terminal
    /\ p \notin Collected
    /\ emitted' = Append(emitted, [name |-> Name(plans[RowFor(p)].src),
                                   ok   |-> pc[p] = "ok",
                                   msg  |-> Message(p),
                                   of   |-> p])
    /\ results' = [results EXCEPT ![p] = pc[p]]
    /\ failures' = IF pc[p] = "ok" THEN failures ELSE failures + 1
    /\ UNCHANGED <<fs, fs0, settings, jobs, plans, png500, art_files, pc,
                   error, final_target, dest, passed, committed,
                   delete_called, deleted, touched, faults, mainpc>>
    /\ UNCHANGED mainvars
    /\ UNCHANGED <<manifest, cover_image, apics, readings, gate, clock,
                   run_dirs, logs, src_tags, out_tags, queue, queue_set,
                   list_items>>

\* lines 219-222: finished.emit(ok_count, fail_count)
GuiFinish ==
    /\ mainpc = "running"
    /\ LoopDone
    /\ mainpc' = "finished"
    /\ UNCHANGED <<fs, fs0, settings, jobs, plans, png500, art_files, pc,
                   error, final_target, dest, passed, committed,
                   delete_called, deleted, touched, results, failures,
                   faults>>
    /\ UNCHANGED mainvars
    /\ UNCHANGED <<manifest, auxvars>>

GuiNext ==
    \/ \E p \in PlanIds : Start(p)
    \/ \E p \in PlanIds : AudioProduced(p)
    \/ \E p \in PlanIds : Tagged(p)
    \/ \E p \in PlanIds : Validated(p)
    \/ \E p \in PlanIds : CommitResolve(p)
    \/ \E p \in PlanIds : CommitReplace(p)
    \/ \E p \in PlanIds : SourceDeletedOrKept(p)
    \/ \E p \in PlanIds : GuiCollect(p)
    \/ GuiFinish

\* doRun after the submission of the calls
GuiSpec == Init /\ [][GuiNext]_vars

(***************************************************************************)
(* The input queue of the main window: _queue (a list of paths),           *)
(* _queue_set (the strings of the paths) and the list widget (one item per *)
(* path, its text the string of the path).                                 *)
(***************************************************************************)
MaxDrop == 2        \* most paths of one drop or one file dialog
MaxSelect == 2      \* most items selected at once

\* what _normalize_paths lets through: directories and audio files that
\* exist, resolved
QueuePaths ==
    { Dir, SubDir, <<"a", <<>>, "flac", "d">>, <<"a", <<>>, "mp3", "d">>,
      <<"a", <<>>, "flac", "d/s">> }

DropSeqs == UNION { [1..k -> QueuePaths] : k \in 1..MaxDrop }

\* str(p)
Str(path) ==
    IF IsDir(path) THEN Parent(path)
    ELSE Parent(path) \o "/" \o Stem(path) \o "." \o Suffix(path)

\* Path(text): the path that is written so
PathOf(text) == CHOOSE path \in QueuePaths : Str(path) = text

\* list.remove(x): the first element equal to x taken out; a list without x
\* is left as it is (ValueError, ignored by the caller)
RECURSIVE RemoveFirst(_, _)
RemoveFirst(s, x) ==
    IF s = <<>> THEN <<>>
    ELSE IF Head(s) = x THEN Tail(s)
    ELSE <<Head(s)>> \o RemoveFirst(Tail(s), x)

\* a path appended whether or not its key is in the set
AddOneUnchecked(st, path) ==
    [ queue |-> Append(st.queue, path),
      set   |-> st.set \cup {Str(path)},
      items |-> Append(st.items, Str(path)) ]

\* _add_to_queue, lines 150-163: one turn of the loop
AddOne(st, path) ==
    IF Str(path) \in st.set THEN st
    ELSE [ queue |-> Append(st.queue, path),
           set   |-> st.set \cup {Str(path)},
           items |-> Append(st.items, Str(path)) ]

RECURSIVE AddAll(_, _)
AddAll(st, paths) ==
    IF paths = <<>> THEN st
    ELSE AddAll(AddOne(st, Head(paths)), Tail(paths))

\* _remove_selected, lines 171-178: one turn of the loop
RemoveOne(st, text) ==
    [ queue |-> RemoveFirst(st.queue, PathOf(text)),
      set   |-> st.set \ {text},
      items |-> RemoveFirst(st.items, text) ]

RECURSIVE RemoveAll(_, _)
RemoveAll(st, texts) ==
    IF texts = {} THEN st
    ELSE LET text == CHOOSE x \in texts : TRUE
         IN RemoveAll(RemoveOne(st, text), texts \ {text})

QueueState == [queue |-> queue, set |-> queue_set, items |-> list_items]

SetQueue(st) ==
    /\ queue' = st.queue
    /\ queue_set' = st.set
    /\ list_items' = st.items

queueframe == <<fs, fs0, settings, jobs, plans, png500, art_files, pc,
                error, final_target, dest, passed, committed, delete_called,
                deleted, touched, results, failures, faults, mainpc,
                mainvars, manifest, cover_image, apics, readings, gate,
                clock, run_dirs, logs, src_tags, out_tags, emitted>>

\* the window after __init__
QueueInit ==
    /\ fs = <<>>
    /\ fs0 = <<>>
    /\ settings = DefaultSettings
    /\ jobs = 1
    /\ input_paths = <<>>
    /\ dry_run = FALSE
    /\ config = ConfigOf(DefaultSettings)
    /\ folder = {}
    /\ streams = <<>>
    /\ art = <<>>
    /\ replan = <<>>
    /\ plans = <<>>
    /\ png500 = <<>>
    /\ art_files = <<>>
    /\ pc = <<>>
    /\ error = <<>>
    /\ final_target = <<>>
    /\ dest = <<>>
    /\ passed = <<>>
    /\ committed = <<>>
    /\ delete_called = <<>>
    /\ deleted = <<>>
    /\ touched = <<>>
    /\ results = <<>>
    /\ failures = 0
    /\ faults = 0
    /\ mainpc = "idle"
    /\ AuxIdle

\* _on_add_clicked, _on_files_dropped: _add_to_queue(_normalize_paths(...))
AddToQueue(paths) ==
    /\ SetQueue(AddAll(QueueState, paths))
    /\ UNCHANGED queueframe

\* _remove_selected, for the items selected in the list
RemoveSelected(texts) ==
    /\ texts # {}
    /\ SetQueue(RemoveAll(QueueState, texts))
    /\ UNCHANGED queueframe

\* _on_clear_clicked: _clear_all
ClearAll ==
    /\ queue' = <<>>
    /\ queue_set' = {}
    /\ list_items' = <<>>
    /\ UNCHANGED queueframe

QueueNext ==
    \/ \E paths \in DropSeqs : AddToQueue(paths)
    \/ \E texts \in SUBSET { list_items[i] : i \in DOMAIN list_items } :
         Cardinality(texts) <= MaxSelect /\ RemoveSelected(texts)
    \/ ClearAll

QueueSpec == QueueInit /\ [][QueueNext]_vars

(***************************************************************************)
(* Properties.                                                             *)
(***************************************************************************)
AllChecks == {"duration", "bitrate", "cover"}
BeforeCommit == {"audio", "tags", "duration", "bitrate", "cover"}
Decorated(path, i) == <<path[1], <<i>>, path[3], path[4]>>

\* C1: per-track failure isolation.  Whatever a step of one track raises is
\* caught in that track's process_one: no exception ever leaves a pipeline,
\* a track has a captured message exactly when it is recorded as failed, the
\* loop of main never aborts, it returns only when every plan of the batch
\* has reached ok or failed and has been collected as such, and until then
\* some pipeline or the loop can always take a step.
FailureIsolation ==
    /\ mainpc # "crashed"
    /\ \A p \in PlanIds :
         /\ pc[p] # "escaped"
         /\ (error[p] # "") <=> (pc[p] = "failed")
         /\ results[p] # "" => results[p] = pc[p]
    /\ mainpc \in {"exit0", "exit1"} =>
         \A p \in PlanIds : pc[p] \in {"ok", "failed"} /\ results[p] = pc[p]
    /\ mainpc = "exit0" => \A p \in PlanIds : pc[p] = "ok"
    /\ mainpc = "running" => ENABLED Next

\* a track failed before its commit, another one of the batch went through,
\* and main returned 1
FailureIsolationWitness ==
    /\ mainpc = "exit1"
    /\ \E p, q \in PlanIds :
         /\ p # q
         /\ results[p] = "failed" /\ error[p] \in BeforeCommit
         /\ results[q] = "ok" /\ committed[q]

\* C2: commit only after validation.  A plan is at or past atomic_commit
\* (or its output stands anywhere but at its temp path) only if the
\* duration, bit-rate and cover checks all returned for it; a plan one of
\* whose checks raised never entered atomic_commit.
CommitOnlyAfterValidation ==
    \A p \in PlanIds :
      /\ ( \/ pc[p] \in {"commit", "replace", "delete", "ok"}
           \/ committed[p]
           \/ dest[p] # NoPath
           \/ final_target[p] # NoPath
           \/ \E q \in DOMAIN fs : /\ q # plans[p].temp_path
                                   /\ fs[q] \in {<<"encoded", p>>, <<"tagged", p>>} )
         => passed[p] = AllChecks
      /\ error[p] \in AllChecks =>
           /\ passed[p] # AllChecks
           /\ ~committed[p]
           /\ dest[p] = NoPath
           /\ final_target[p] = NoPath

\* one track was committed while a check of another one raised
CommitOnlyAfterValidationWitness ==
    \E p, q \in PlanIds :
      /\ committed[p] /\ fs[final_target[p]] = <<"tagged", p>>
      /\ pc[q] = "failed" /\ error[q] \in AllChecks

\* C3: a failure leaves the original target untouched.  For a track recorded
\* as failed whose target path no other track of the batch has worked on,
\* the file that stood at the target before the run is still there with its
\* content, and the temp file is gone.
FailureLeavesTargetUntouched ==
    \A p \in PlanIds :
      ( /\ pc[p] = "failed"
        /\ \A q \in PlanIds \ {p} : plans[p].target \notin touched[q] )
      => /\ plans[p].temp_path \notin DOMAIN fs
         /\ plans[p].target \in DOMAIN fs0 =>
              /\ plans[p].target \in DOMAIN fs
              /\ fs[plans[p].target] = fs0[plans[p].target]

\* C4: collision policy version, the commits following one another.  The
\* path os.replace is about to write does not exist; it is the target when
\* the target is free, and else "name (i).ext" with i >= 2, every smaller
\* decoration being taken; so no file the directory had is ever rewritten
\* and every committed output stays where it landed.
VersionNeverOverwrites ==
    settings.collision = "version" =>
      /\ \A q \in DOMAIN fs0 \cap DOMAIN fs : fs[q] = fs0[q]
      /\ \A p \in PlanIds :
           /\ committed[p] =>
                /\ final_target[p] \in DOMAIN fs
                /\ fs[final_target[p]] = <<"tagged", p>>
           /\ pc[p] = "replace" =>
                /\ dest[p] \notin DOMAIN fs
                /\ \/ dest[p] = plans[p].target
                   \/ /\ plans[p].target \in DOMAIN fs
                      /\ \E i \in 2..(MaxBatch + 2) :
                           /\ dest[p] = Decorated(plans[p].target, i)
                           /\ \A j \in 2..(i - 1) :
                                Decorated(plans[p].target, j) \in DOMAIN fs

\* two commits on a target that was there: they landed on (2), then on (3)
VersionNeverOverwritesWitness ==
    /\ settings.collision = "version"
    /\ \E p, q \in PlanIds :
         /\ p # q
         /\ plans[p].target = plans[q].target
         /\ plans[p].target \in DOMAIN fs0
         /\ committed[p] /\ final_target[p] = Decorated(plans[p].target, 2)
         /\ committed[q] /\ final_target[q] = Decorated(plans[q].target, 3)

\* C5: collision policy skip.  When the target exists as atomic_commit looks
\* at it, the call returns the target path, nothing is raised, nothing is
\* moved and the directory is as it was; a target that was there before the
\* run keeps its content to the end.  When the target does not exist the
\* temp file is to be moved onto the target, and the move puts the temp
\* file's content there and takes the temp file away.
SkipLeavesTarget ==
    /\ [](settings.collision = "skip" =>
            \A p \in PlanIds :
              /\ plans[p].target \in DOMAIN fs0 =>
                   /\ plans[p].target \in DOMAIN fs
                   /\ fs[plans[p].target] = fs0[plans[p].target]
              /\ committed[p] => final_target[p] = plans[p].target)
    /\ [][\A p \in PlanIds :
            /\ ( /\ settings.collision = "skip"
                 /\ pc[p] = "commit" /\ pc'[p] # "commit" )
               => IF Exists(fs, plans[p].target)
                  THEN /\ final_target'[p] = plans[p].target
                       /\ pc'[p] = "delete"
                       /\ error'[p] = ""
                       /\ ~committed'[p]
                       /\ fs' = fs
                  ELSE /\ dest'[p] = plans[p].target
                       /\ pc'[p] = "replace"
                       /\ fs' = fs
            /\ ( /\ settings.collision = "skip"
                 /\ pc[p] = "replace" /\ pc'[p] = "delete" )
               => /\ final_target'[p] = plans[p].target
                  /\ plans[p].target \in DOMAIN fs'
                  /\ fs'[plans[p].target] = fs[plans[p].temp_path]
                  /\ plans[p].temp_path \notin DOMAIN fs'
                  /\ \A q \in DOMAIN fs \ {plans[p].temp_path, plans[p].target} :
                       q \in DOMAIN fs' /\ fs'[q] = fs[q]
      ]_vars

\* under skip, one track found its target in place and left it, another one
\* of the run found none and moved its output there
SkipLeavesTargetWitness ==
    /\ settings.collision = "skip"
    /\ \E p \in PlanIds :
         /\ pc[p] = "ok" /\ ~committed[p]
         /\ final_target[p] = plans[p].target
         /\ fs0 # fs
         /\ \E q \in PlanIds :
              /\ committed[q]
              /\ fs[plans[q].target] = <<"tagged", q>>

\* C6: deletion only with replace-in-place and a non-MP3 source.  For a plan
\* whose source codec is mp3, and for every plan when replace-in-place is
\* off, delete_source is never called, the deletion step removes nothing,
\* and the source is where it was.
DeletionOnlyWhenEnabled ==
    \A p \in PlanIds :
      (plans[p].src_codec = "mp3" \/ ~settings.replace_in_place) =>
        /\ ~delete_called[p]
        /\ ~deleted[p]
        /\ error[p] # "delete"
        /\ plans[p].src \in DOMAIN fs

\* an MP3 source committed beside itself (version) with replace-in-place on:
\* the path guard is not what kept it
DeletionOnlyWhenEnabledWitness ==
    \E p \in PlanIds :
      /\ plans[p].src_codec = "mp3"
      /\ settings.replace_in_place
      /\ pc[p] = "ok" /\ committed[p]
      /\ final_target[p] # plans[p].src

\* C7: deletion guard.  When the deletion decision is taken with the
\* resolved final target equal to the resolved source, delete_source is not
\* called and the source, as named and as resolved, stays with its content,
\* whatever the settings.
DeletionGuard ==
    [][\A p \in PlanIds :
         ( /\ pc[p] = "delete" /\ pc'[p] # "delete"
           /\ Resolve(fs, final_target[p]) = Resolve(fs, plans[p].src) )
         => /\ ~delete_called'[p]
            /\ ~deleted'[p]
            /\ pc'[p] = "ok"
            /\ \A q \in SrcPaths(p) \cap DOMAIN fs :
                 q \in DOMAIN fs' /\ fs'[q] = fs[q]
      ]_vars

\* a non-MP3 source that is a link to its own target, replace-in-place on:
\* the track went through and the link was kept
DeletionGuardWitness ==
    \E p \in PlanIds :
      /\ plans[p].src_codec # "mp3"
      /\ settings.replace_in_place
      /\ IsLink(fs, plans[p].src)
      /\ pc[p] = "ok" /\ committed[p]
      /\ final_target[p] = Resolve(fs, plans[p].src)
      /\ ~delete_called[p]

\* C8: a source missing at the deletion step is no error.  When the deletion
\* step of a track that is to delete its source finds the source gone, the
\* track ends ok, in either delete mode.
MissingSourceIsNoError ==
    [][\A p \in PlanIds :
         ( /\ pc[p] = "delete" /\ pc'[p] # "delete"
           /\ DoDelete(plans[p]) /\ settings.replace_in_place
           /\ ~Exists(fs, plans[p].src) )
         => pc'[p] = "ok" /\ error'[p] = ""
      ]_vars

\* C9: the tasks are independent.  No pipeline reads, writes, replaces or
\* deletes a path that is the source, the temp or the target path of a plan
\* of the batch made for another source.
TasksIndependent ==
    \A p, q \in PlanIds :
      plans[p].src # plans[q].src =>
        touched[p] \cap {plans[q].src, plans[q].temp_path,
                         plans[q].target} = {}

\* C10: bounded concurrency.  At most "jobs" pipelines are executing in any
\* state; a queued call starts only while fewer than "jobs" are executing;
\* every plan is eventually executed to its end.
BoundedConcurrency ==
    /\ [](Cardinality(Running) <= jobs)
    /\ [][\A p \in PlanIds :
            (pc[p] = "queued" /\ pc'[p] # "queued") =>
               /\ Cardinality(Running) < jobs
               /\ pc'[p] = "audio"]_vars
    /\ <>(\A p \in PlanIds : pc[p] \in Terminal)

\* the pool is full and a call waits
BoundedConcurrencyWitness ==
    /\ Cardinality(Running) = jobs
    /\ \E p \in PlanIds : pc[p] = "queued"

\* C11: artwork before the pipelines.  While the artwork of some plan is not
\* resolved yet no process_one call exists for any plan; a call is queued or
\* running only after main went through the artwork of every plan.
ArtworkBeforePipelines ==
    /\ Len(art) < Len(plans) => \A p \in PlanIds : pc[p] = "planned"
    /\ mainpc \in {"start", "plan", "art"} =>
         \A p \in PlanIds : pc[p] = "planned"
    /\ (\E p \in PlanIds : pc[p] # "planned") =>
         /\ Len(art) = Len(plans)
         /\ mainpc \in {"running", "exit0", "exit1"}

\* two plans, their artwork found, and a pipeline at work
ArtworkBeforePipelinesWitness ==
    /\ Len(plans) = 2
    /\ Len(art) = 2
    /\ art[1].kind # "none" /\ art[2].kind # "none"
    /\ \E p \in PlanIds : pc[p] \in Executing

\* C12: the exit status.  When the process has ended its status is 0
\* exactly when there was no configuration or planning error and the run was
\* a dry run or every track ended ok, 1 exactly when some track failed, 2
\* exactly when the configuration was rejected or the planner found no file,
\* and then no pipeline was started.
ExitStatusContract ==
    ExitStatus # -1 =>
      LET bad == \/ LoadSettingsFrom(config).error # ""
                 \/ BuildRunPlan(fs0, input_paths, settings, 0) = <<>>
      IN /\ (ExitStatus = 0) <=>
              (~bad /\ (dry_run \/ \A p \in PlanIds : pc[p] = "ok"))
         /\ (ExitStatus = 1) <=> (\E p \in PlanIds : pc[p] = "failed")
         /\ (ExitStatus = 2) <=> bad
         /\ (ExitStatus = 2) => PlanIds = {}

\* C13: PlanError.  Once the planner has run, main has returned 2 exactly
\* when no existing file with a supported extension is given or lies under a
\* directory given; otherwise the sources planned are exactly those files: a
\* path that is not there is skipped, a file with another extension is not
\* planned.
EligibleFiles ==
    { q \in DOMAIN fs :
        /\ Suffix(q) \in {"flac", "wav", "mp3", "aac"}
        /\ \E i \in DOMAIN input_paths :
             \/ /\ input_paths[i] \notin {Dir, SubDir}
                /\ q = Resolve(fs, input_paths[i])
             \/ /\ input_paths[i] = Dir
                /\ Parent(q) \in {"d", "d/s"}
             \/ /\ input_paths[i] = SubDir
                /\ Parent(q) = "d/s" }

PlanErrorIffNoFile ==
    mainpc # "plan" =>
      /\ (mainpc = "exit2") <=> (EligibleFiles = {})
      /\ mainpc # "exit2" =>
           /\ plans # <<>>
           /\ Srcs(plans) = EligibleFiles

\* a text file and a missing path were given beside a directory: they were
\* skipped and the directory's files planned
PlanErrorIffNoFileWitness ==
    /\ mainpc = "art"
    /\ plans # <<>>
    /\ \E q \in DOMAIN fs : Suffix(q) = "txt" /\ Parent(q) = "d"
    /\ input_paths[1] \notin DOMAIN fs
    /\ input_paths[1] \notin {Dir, SubDir}
    /\ input_paths[2] = Dir

\* PlanError for a command line of a text file that exists and a path that
\* does not
PlanErrorRaisedWitness ==
    /\ mainpc = "exit2"
    /\ input_paths[1] \in DOMAIN fs /\ Suffix(input_paths[1]) = "txt"
    /\ Len(input_paths) = 2 /\ input_paths[2] \notin DOMAIN fs

\* C14: duplicate inputs collapse.  No two plans of the list have the same
\* canonical source path.
DuplicatesCollapse ==
    \A i, j \in DOMAIN plans :
      i # j => Resolve(fs, plans[i].src) # Resolve(fs, plans[j].src)

PlansSorted ==
    \A i \in DOMAIN plans :
      i < Len(plans) =>
        LET p == plans[i].src
            q == plans[i + 1].src
        IN \/ DirRank(Parent(p)) < DirRank(Parent(q))
           \/ /\ Parent(p) = Parent(q)
              /\ NameKey(p) <= NameKey(q)

\* the subdirectory was given before a file of "d": the file comes first
PlansSortedWitness ==
    /\ Len(plans) >= 3
    /\ input_paths[1] = SubDir
    /\ Parent(input_paths[2]) = "d"
    /\ Parent(plans[1].src) = "d"
    /\ Parent(plans[Len(plans)].src) = "d/s"

\* C17: needs_encode.  A plan needs encoding exactly when its source codec
\* is not mp3, and the audio step that succeeds leaves at the temp path the
\* source's own bytes for a plan that needs no encoding and the encoder's
\* output for a plan that needs it.
EncodeIffNotMp3 ==
    /\ [](\A p \in PlanIds :
            plans[p].needs_encode <=> plans[p].src_codec # "mp3")
    /\ [][\A p \in PlanIds :
            (pc[p] = "audio" /\ pc'[p] = "tags") =>
              fs'[plans[p].temp_path] =
                IF plans[p].src_codec = "mp3"
                THEN fs[Resolve(fs, plans[p].src)]
                ELSE <<"encoded", p>>]_vars

\* an mp3 copied and another source encoded, both at their temp paths
EncodeIffNotMp3Witness ==
    \E p, q \in PlanIds :
      /\ plans[p].src_codec = "mp3" /\ pc[p] = "tags"
      /\ plans[p].temp_path \in DOMAIN fs
      /\ fs[plans[p].temp_path] = fs0[Resolve(fs0, plans[p].src)]
      /\ plans[q].src_codec # "mp3" /\ pc[q] = "tags"
      /\ plans[q].temp_path \in DOMAIN fs
      /\ fs[plans[q].temp_path] = <<"encoded", q>>

\* C18: the paths of a plan.  The target is the source with the extension
\* mp3, the temp file and the target are in the source's directory, no two
\* plans have the same temp path and no temp path is the source or the
\* target of a plan.
PlanPaths ==
    \A i \in DOMAIN plans :
      /\ Stem(plans[i].target) = Stem(plans[i].src)
      /\ plans[i].target[2] = plans[i].src[2]
      /\ Suffix(plans[i].target) = "mp3"
      /\ Parent(plans[i].target) = Parent(plans[i].src)
      /\ Parent(plans[i].temp_path) = Parent(plans[i].src)
      /\ \A j \in DOMAIN plans :
           /\ i # j => plans[i].temp_path # plans[j].temp_path
           /\ plans[i].temp_path # plans[j].src
           /\ plans[i].temp_path # plans[j].target

\* the same file planned twice, with two temp paths
PlanPathsWitness ==
    \E i, j \in DOMAIN plans :
      /\ i # j
      /\ plans[i].src = plans[j].src
      /\ plans[i].temp_path # plans[j].temp_path
      /\ Parent(plans[i].src) = "d/s"

ArtPrecedenceEmbeddedWitness ==
    /\ art # <<>>
    /\ art[1].kind = "embedded"
    /\ art[1].stream_index = 2
    /\ Len(streams) = 2

\* C20: a failed artwork step costs the plan its artwork and nothing else.
\* No failure of the probe, of the extraction or of the normalisation ends
\* main: a run that is neither a dry run nor stopped by a configuration or
\* planning error resolves the artwork of every plan and starts the
\* pipelines.
ArtFailureDegrades ==
    /\ mainpc # "crashed"
    /\ mainpc \in {"running", "exit0", "exit1"} => Len(art) = Len(plans)

\* C21: the cover gate, for every configured size and format.  A file that
\* passed the checks holds exactly one cover, of the configured size and in
\* the configured format; a track whose one cover has the configured size
\* and format is failed neither by the tagging step nor by the cover check.
ConfiguredCover(img) ==
    /\ img.size = settings.art_target_px
    /\ img.format = (IF settings.art_format = "jpeg" THEN "JPEG" ELSE "PNG")

CoverGate ==
    /\ gate = "passed" =>
         /\ Len(apics) = 1
         /\ ConfiguredCover(apics[1])
    /\ (gate = "failed" /\ error[1] = "ValueError: not 500x500") =>
         ~ConfiguredCover(cover_image)
    /\ (gate = "failed" /\ passed[1] = {"duration", "bitrate"}) =>
         ~(Len(apics) = 1 /\ ConfiguredCover(apics[1]))

\* C22: the duration gate.  The duration check fails the track exactly when
\* both durations are obtained and differ by more than 0.5 s; when a probe
\* fails or reports no duration the check is passed over.
DurationGate ==
    LET got(x) == ~x.raised /\ x.value # 0
        apart  == /\ got(readings.src_dur)
                  /\ got(readings.dst_dur)
                  /\ \/ readings.src_dur.value - readings.dst_dur.value > 500
                     \/ readings.dst_dur.value - readings.src_dur.value > 500
    IN /\ (gate = "failed" /\ passed[1] = {}
             /\ error[1] # "ValueError: not 500x500") => apart
       /\ "duration" \in passed[1] => ~apart

\* C23: the bit-rate gate.  The bit-rate check fails the track exactly when
\* the track was encoded and the bit rate probed is below 319000, a bit rate
\* that is missing or could not be probed counting as 0; a track that was
\* copied is never failed by it.
BitrateGate ==
    LET br == IF readings.bit_rate.raised THEN 0 ELSE readings.bit_rate.value
    IN /\ (gate = "failed" /\ passed[1] = {"duration"}) =>
            (plans[1].needs_encode /\ br < 319000)
       /\ "bitrate" \in passed[1] =>
            (~plans[1].needs_encode \/ br >= 319000)

\* an encoded track at 319000 passed the check
BitrateGateWitness ==
    /\ plans[1].needs_encode
    /\ readings.bit_rate = Reports(319000)
    /\ "bitrate" \in passed[1]
    /\ gate = "cover"

\* an encoded track at 318999 was failed by the check
BitrateGateFailedWitness ==
    /\ plans[1].needs_encode
    /\ readings.bit_rate = Reports(318999)
    /\ gate = "failed"
    /\ passed[1] = {"duration"}

\* C30: the images after tagging.  A tagging step that returns leaves in
\* the temp file exactly one image, of the front-cover type and with the
\* bytes of the normalized cover, when the plan has a normalized cover, and
\* no image when it has none, whatever images the file held before.
OneFrontCoverAfterTagging ==
    [][(gate = "tags" /\ gate' = "duration") =>
         IF png500[1]
         THEN /\ Len(apics') = 1
              /\ apics'[1].type = 3
              /\ apics'[1].size = cover_image.size
              /\ apics'[1].format = cover_image.format
         ELSE apics' = <<>>]_vars

\* a tagged temp file with its one front cover
OneFrontCoverAfterTaggingWitness ==
    /\ gate = "duration"
    /\ touched[1] # {}
    /\ png500[1]
    /\ Len(apics) = 1
    /\ apics[1].type = 3

ManifestOnce ==
    /\ Len(manifest) <= 1
    /\ (Len(manifest) = 1) <=> (mainpc \in {"exit0", "exit1"})
    /\ mainpc = "exit2" => manifest = <<>>
    /\ (Len(manifest) = 1 /\ ~dry_run) =>
         /\ manifest[1].mode = "execute"
         /\ \A p \in PlanIds : pc[p] \in {"ok", "failed"}
         /\ manifest[1].total = Len(plans)
         /\ manifest[1].ok + manifest[1].failed = Len(plans)

\* the manifest of a run of two tracks, one of which failed
ManifestOnceWitness ==
    /\ Len(manifest) = 1
    /\ manifest[1].mode = "execute"
    /\ manifest[1].total = 2
    /\ manifest[1].failed = 1

\* C26: single consumer.  The result list and the failure counter change
\* only in a step of main's loop, which takes the row of one finished call
\* not yet received and counts it when it failed; no step of a pipeline
\* changes them.  When main has returned every plan has its one row and the
\* counter is the number of failed rows.
SingleConsumer ==
    /\ [][(results' # results \/ failures' # failures) =>
            /\ mainpc = "running"
            /\ pc' = pc
            /\ \E p \in PlanIds :
                 /\ results[p] = ""
                 /\ pc[p] \in {"ok", "failed"}
                 /\ results' = [results EXCEPT ![p] = pc[p]]
                 /\ failures' = failures + (IF pc[p] = "failed" THEN 1 ELSE 0)]_vars
    /\ [](mainpc \in {"exit0", "exit1"} =>
            /\ \A p \in PlanIds : results[p] = pc[p]
            /\ failures = Cardinality({ p \in PlanIds : pc[p] = "failed" }))

\* both rows received, the second call having finished first
SingleConsumerWitness ==
    /\ Len(plans) = 2
    /\ results[2] = "failed"
    /\ results[1] = ""
    /\ failures = 1
    /\ pc[1] \in {"audio", "tags", "validate"}

\* C28: stage order, no retry.  The position of a pipeline moves only along
\* audio, tags, validation, commit, deletion decision, end, or to "failed";
\* it never moves back and never leaves "ok" or "failed".  delete_source is
\* called only after atomic_commit returned, and the temp art is cleaned
\* only in the step that ends the pipeline.
StageOrder ==
    [][\A p \in PlanIds :
         /\ pc'[p] # pc[p] =>
              \/ pc[p] = "queued"   /\ pc'[p] = "audio"
              \/ pc[p] = "audio"    /\ pc'[p] \in {"tags", "failed"}
              \/ pc[p] = "tags"     /\ pc'[p] \in {"validate", "failed"}
              \/ pc[p] = "validate" /\ pc'[p] \in {"commit", "failed"}
              \/ pc[p] = "commit"   /\ pc'[p] \in {"replace", "delete"}
              \/ pc[p] = "replace"  /\ pc'[p] \in {"delete", "failed"}
              \/ pc[p] = "delete"   /\ pc'[p] \in {"ok", "failed"}
         /\ (delete_called'[p] /\ ~delete_called[p]) =>
              /\ pc[p] = "delete"
              /\ final_target[p] # NoPath
         /\ art_files'[p] # art_files[p] => pc'[p] \in {"ok", "failed"}
      ]_vars

\* one pipeline went through every step, source deleted, and another failed
StageOrderWitness ==
    \E p, q \in PlanIds :
      /\ pc[p] = "ok" /\ committed[p] /\ deleted[p]
      /\ passed[p] = {"duration", "bitrate", "cover"}
      /\ pc[q] = "failed"

RunDirPerInvocation ==
    /\ \A i, j \in Invocations :
         (i # j /\ run_dirs[i] # NoDir) => run_dirs[i] # run_dirs[j]
    /\ \A k \in DOMAIN manifest : logs[manifest[k].dir] = manifest[k].by

\* C31: a track with no normalized cover is never committed.  For every plan
\* without a normalized image, in every state: the file produced holds no
\* APIC frame, the cover check never passes, the pipeline never reaches the
\* commit and never deletes the source, a finished pipeline is failed; and when
\* no plan of the batch has a cover, every source and every target is as it
\* was before the run.
NoArtNeverCommitted ==
    \A p \in PlanIds :
        ~png500[p] =>
            /\ ApicsWritten(p) = <<>>
            /\ "cover" \notin passed[p]
            /\ pc[p] \notin {"commit", "replace", "delete", "ok"}
            /\ ~committed[p] /\ ~delete_called[p] /\ ~deleted[p]
            /\ final_target[p] = NoPath
            /\ pc[p] \in Terminal => pc[p] = "failed"
            /\ (\A q \in PlanIds : ~png500[q]) =>
                 \A path \in {plans[p].src, plans[p].target} :
                     /\ path \in DOMAIN fs <=> path \in DOMAIN fs0
                     /\ path \in DOMAIN fs => fs[path] = fs0[path]

\* a track without cover whose audio and tags were made and whose duration and
\* bit rate passed, failed by the cover check
NoArtNeverCommittedWitness ==
    \E p \in PlanIds :
        /\ ~png500[p]
        /\ pc[p] = "failed"
        /\ error[p] = "cover"
        /\ passed[p] = {"duration", "bitrate"}
        /\ plans[p].target \in DOMAIN fs0

\* C32: the tags written hold a field only if the source's tags hold it.  For
\* every source tag map, after the tagging step: a title, album, artist,
\* album-artist, genre or date frame is in the temp file only if the source
\* has that key, and a track (disc) frame only if the source has a track
\* (disc) number.
TagsOnlyFromSource ==
    (gate = "idle" /\ PlanIds = {1} /\ DOMAIN out_tags # {}) =>
        /\ "TIT2" \in DOMAIN out_tags => src_tags.title # Absent
        /\ "TALB" \in DOMAIN out_tags => src_tags.album # Absent
        /\ "TPE1" \in DOMAIN out_tags => src_tags.artist # Absent
        /\ "TPE2" \in DOMAIN out_tags => src_tags.albumartist # Absent
        /\ "TCON" \in DOMAIN out_tags => src_tags.genre # Absent
        /\ "TDRC" \in DOMAIN out_tags => src_tags.date # Absent
        /\ "TRCK" \in DOMAIN out_tags => src_tags.tracknumber.kind # "absent"
        /\ "TPOS" \in DOMAIN out_tags => src_tags.discnumber.kind # "absent"

\* C33: a bad or missing setting is a ConfigError, raised before any planning.
\* For every configuration file, once load_settings has been called: either
\* it returned a Settings value whose profile, sample-rate policy, tag
\* version, art size, art format, art mode, delete mode, collision policy and
\* log level are within their allowed sets, or it raised ConfigError, main
\* returned 2 and planned nothing; no other exception leaves it.
ConfigErrorOrSettings ==
    mainpc # "start" =>
        \/ /\ settings.loaded
           /\ LoadSettingsFrom(config).error = ""
           /\ settings.bitrate_mode \in Allowed.profile
           /\ settings.sample_rate \in Allowed.sample_rate
           /\ settings.id3_version \in Allowed.version
           /\ settings.art_target_px > 0
           /\ settings.art_format \in Allowed.format
           /\ settings.art_mode \in Allowed.mode
           /\ settings.delete_mode \in Allowed.delete_mode
           /\ settings.collision \in Allowed.if_target_exists
           /\ settings.log_level \in Allowed.level
        \/ /\ ~settings.loaded
           /\ LoadSettingsFrom(config).error = "ConfigError"
           /\ mainpc = "exit2"
           /\ plans = <<>>

\* C34: no temp output is left behind.  In every state, under every collision
\* policy, a track whose pipeline has returned, ok or failed, has no file at
\* its plan's temp_path.
NoTempLeft ==
    \A p \in PlanIds :
        pc[p] \in {"ok", "failed"} => plans[p].temp_path \notin DOMAIN fs

\* C35: no source is lost without its output.  In every state, for every plan
\* whose source the pipeline deleted, the file at the final target reported
\* for the plan is the output produced from that source in this run; under
\* the policy skip with a target that was there before, the source is kept.
SourceDeletedOnlyWithOutput ==
    \A p \in PlanIds :
        /\ deleted[p] =>
             /\ final_target[p] \in DOMAIN fs
             /\ fs[final_target[p]] = <<"tagged", p>>
        /\ (plans[p].collision = "skip" /\ plans[p].target \in DOMAIN fs0) =>
             ~deleted[p]

\* C36: concurrent versioned commits do not collide.  In every state, two
\* plans with the same target that both committed under the policy version
\* were committed to two different names, and each of the two files is the
\* output of its plan.
VersionedCommitsDistinct ==
    \A p, q \in PlanIds :
        ( /\ p # q
          /\ plans[p].collision = "version"
          /\ plans[p].target = plans[q].target
          /\ committed[p] /\ committed[q] ) =>
            /\ final_target[p] # final_target[q]
            /\ fs[final_target[p]] = <<"tagged", p>>
            /\ fs[final_target[q]] = <<"tagged", q>>

\* C37: every trackResult names the plan it reports on.  In every state of
\* the graphical runner, for every completion order, each emitted
\* trackResult(name, ok, message) carries the file name of the plan whose
\* pipeline returned that ok and message.
TrackResultNamesItsPlan ==
    \A k \in DOMAIN emitted :
        /\ emitted[k].ok = (pc[emitted[k].of] = "ok")
        /\ emitted[k].msg = Message(emitted[k].of)
        /\ emitted[k].name = Name(plans[emitted[k].of].src)

\* C38: the counts of the manifest.  In the manifest of an executed run,
\* summary.total is the number of plans, summary.ok + summary.failed is
\* summary.total, summary.failed is the failure counter that decides the exit
\* status, and the source of every plan is in exactly one track record.
ManifestCounts ==
    \A k \in DOMAIN manifest :
        manifest[k].mode = "execute" =>
            /\ manifest[k].total = Len(plans)
            /\ manifest[k].ok + manifest[k].failed = manifest[k].total
            /\ manifest[k].failed = failures
            /\ (mainpc = "exit1") <=> (manifest[k].failed > 0)
            /\ \A p \in PlanIds :
                 Cardinality({ t \in DOMAIN manifest[k].tracks :
                                 manifest[k].tracks[t].src = plans[p].src }) = 1

\* C39: the input queue of the main window.  After any sequence of add,
\* remove-selected and clear: no path is twice in the queue list, the key set
\* is exactly the set of the strings of the paths in the list (and the list
\* widget shows these strings, in the order of the queue); and a step that
\* adds only paths that are already queued changes nothing.
QueueConsistent ==
    /\ [](/\ \A i, j \in DOMAIN queue : queue[i] = queue[j] => i = j
          /\ queue_set = { Str(queue[i]) : i \in DOMAIN queue }
          /\ list_items = [ i \in DOMAIN queue |-> Str(queue[i]) ])
    /\ [][\A paths \in DropSeqs :
            ( /\ AddToQueue(paths)
              /\ \A i \in DOMAIN paths : Str(paths[i]) \in queue_set ) =>
                UNCHANGED <<queue, queue_set, list_items>>]_vars

\* three paths queued, a directory behind two files
QueueConsistentWitness ==
    /\ Len(queue) = 3
    /\ queue[3] = Dir
    /\ queue[1] = <<"a", <<>>, "flac", "d/s">>
    /\ queue_set = {"d", "d/s/a.flac", "d/a.mp3"}

====
